---- MODULE Spec2Model ----
(***************************************************************************)
(* Model of the thermostat vendor integration layer: the vendor clients    *)
(* (api/thermostat_clients), the client factory and the view-set extension *)
(* (api/thermostat_api_extension.py) that resolves credentials, builds a   *)
(* client, authenticates and performs one operation.                       *)
(*                                                                         *)
(* A client method is an operator from (client, clock, arguments) to the   *)
(* SET of its possible outcomes, one per vendor answer; an outcome holds   *)
(* the client after the call, the clock after the call, the value returned *)
(* or the exception raised, and the log of the HTTP requests it sent.      *)
(***************************************************************************)
EXTENDS Integers, Sequences, FiniteSets, TLC

VARIABLES client, now, last, thermostat, settings, calls, pending, conversion

vars == <<client, now, last, thermostat, settings, calls, pending, conversion>>

(***************************************************************************)
(* Bounds of the model.                                                    *)
(***************************************************************************)
\* the clock (seconds) runs from 0 to MaxNow
MaxNow == 2
\* a client built by the factory is called at most MaxCalls times
MaxCalls == 2

(***************************************************************************)
(* Python values.                                                          *)
(***************************************************************************)
\* None, for string-valued attributes and dictionary lookups
None == "None"
\* token_expiry = None
NoExpiry == 0 - 1
\* a numeric JSON field that is absent (dict.get() -> None)
NoNum == 0 - 999999
\* truth value of a str-or-None
Truthy(s) == s # None /\ s # ""
\* dict.get(key) on a map from keys to strings
Get(d, k) == IF k \in DOMAIN d THEN d[k] ELSE None

(***************************************************************************)
(* Outcomes of a call.                                                     *)
(***************************************************************************)
NoStatus ==
    [temperature |-> NoNum, target_temperature |-> NoNum, mode |-> None,
     fan_mode |-> None, is_online |-> FALSE, humidity |-> NoNum]

RetBool(b) == [kind |-> "bool", b |-> b, st |-> NoStatus, sch |-> None, msg |-> ""]
RetNone == [kind |-> "none", b |-> FALSE, st |-> NoStatus, sch |-> None, msg |-> ""]
RetStatus(s) == [kind |-> "status", b |-> TRUE, st |-> s, sch |-> None, msg |-> ""]
RetSchedule(s) == [kind |-> "schedule", b |-> s # "{}", st |-> NoStatus, sch |-> s, msg |-> ""]
RetRaise(m) == [kind |-> "raise", b |-> FALSE, st |-> NoStatus, sch |-> None, msg |-> m]

Out(c, t, r, l) == [cl |-> c, now |-> t, ret |-> r, log |-> l]

NoExpiresIn == [kind |-> "absent", n |-> 0]

NoPayload ==
    [ambient |-> NoNum, mode |-> None, heat |-> NoNum, cool |-> NoNum,
     timerMode |-> None, humidity |-> NoNum,
     current_temperature |-> NoNum, target_temperature |-> NoNum,
     fan_mode |-> None, is_online |-> "absent", schedule |-> None]

\* a vendor answer: status is "exc" when the request raised (connection
\* error, timeout), json is "bad" when response.json() raises, and the
\* remaining fields are the members of the JSON object
Response(status, json, access_token, refresh_token, expires_in, data) ==
    [status |-> status, json |-> json, access_token |-> access_token,
     refresh_token |-> refresh_token, expires_in |-> expires_in, data |-> data]

NoResponse == Response("none", "none", None, None, NoExpiresIn, NoPayload)

\* one HTTP request and the answer it got
Req(kind, url, device, command, mode, n1, n2, bearer, r) ==
    [kind |-> kind, url |-> url, device |-> device, command |-> command,
     mode |-> mode, n1 |-> n1, n2 |-> n2, bearer |-> bearer, resp |-> r]

\* the return of an authenticate() call, as an entry of the log
Authenticated(b) ==
    [kind |-> "authenticate", url |-> "", device |-> None, command |-> "",
     mode |-> None, n1 |-> NoNum, n2 |-> NoNum, bearer |-> None,
     resp |-> [NoResponse EXCEPT !.status = IF b THEN "true" ELSE "false"]]

Returned(o) == [o EXCEPT !.log = Append(@, Authenticated(o.ret.b))]

(***************************************************************************)
(* Vendor answers to a token request.                                      *)
(***************************************************************************)
ExpiresInValues ==
    {[kind |-> "absent", n |-> 0], [kind |-> "int", n |-> 0],
     [kind |-> "int", n |-> 2], [kind |-> "bad", n |-> 0]}

\* requests.post raised, answered non-200, answered 200 with a body that is
\* not JSON, or answered 200 with a JSON object.  The clock is read when the
\* call starts and again when the answer is stored; the time between the two
\* is left to Tick, which may fire before any call.
TokenResponses(atoks, rtoks) ==
    {Response(s, "none", None, None, NoExpiresIn, NoPayload) :
        s \in {"exc", "non200"}}
    \cup
    {Response("200", "bad", None, None, NoExpiresIn, NoPayload)}
    \cup
    {Response("200", "object", a, r, e, NoPayload) :
        a \in atoks, r \in rtoks, e \in ExpiresInValues}

(***************************************************************************)
(* Vendor answers to a status, schedule or command request.                *)
(***************************************************************************)
\* temperatures are exact multiples of 1/Scale degree
Scale == 900

Deg(n) == n * Scale

\* a GET: raised, non-200, 200 with a body that is not JSON, or 200 with one
\* of the JSON objects in payloads.  Nothing reads the clock between a status
\* or command request and the return of the method that sent it, so the time
\* such a request takes is left to Tick.
GetResponses(payloads) ==
    {Response(s, "none", None, None, NoExpiresIn, NoPayload) :
        s \in {"exc", "non200"}}
    \cup
    {Response("200", "bad", None, None, NoExpiresIn, NoPayload)}
    \cup
    {Response("200", "object", None, None, NoExpiresIn, p) : p \in payloads}

\* a command POST: raised, non-200 or 200
CommandResponses ==
    {Response(s, "none", None, None, NoExpiresIn, NoPayload) :
        s \in {"exc", "non200", "200"}}

\* device resources of the device-management API
NestPayloads ==
    {[NoPayload EXCEPT !.ambient = a, !.mode = m, !.heat = Deg(20),
                       !.cool = Deg(24), !.timerMode = f, !.humidity = 45] :
        a \in {Deg(22)}, m \in {"HEAT", "COOL", "HEATCOOL", "OFF"},
        f \in {"OFF"}}
    \cup
    {[NoPayload EXCEPT !.ambient = 0, !.mode = "ECO", !.timerMode = "ON"],
     NoPayload}

\* flat status objects of the token-based APIs
FlatPayloads ==
    {[NoPayload EXCEPT !.current_temperature = Deg(70),
                       !.target_temperature = Deg(72), !.mode = "heat",
                       !.fan_mode = "auto", !.is_online = "true",
                       !.humidity = 35],
     [NoPayload EXCEPT !.current_temperature = Deg(70), !.mode = "COOL",
                       !.fan_mode = "ON", !.is_online = "false"],
     [NoPayload EXCEPT !.current_temperature = Deg(70), !.mode = "DRY",
                       !.fan_mode = "HIGH", !.is_online = "true"],
     NoPayload}

\* schedule documents; "{}" is the empty JSON object
Schedules == {"{}", "sched1"}

SchedulePayloads == {[NoPayload EXCEPT !.schedule = s] : s \in Schedules}

\* str.lower() on the mode strings of the model
Lower(s) ==
    CASE s = "HEAT" -> "heat"
      [] s = "COOL" -> "cool"
      [] s = "Auto" -> "auto"
      [] s = "OFF" -> "off"
      [] s = "ON" -> "on"
      [] s = "DRY" -> "dry"
      [] s = "HIGH" -> "high"
      [] OTHER -> s

(***************************************************************************)
(* NestClient                                                              *)
(***************************************************************************)
\* NestClient_init giving a supplied access token the default lifetime
NestClient_init_token_valid(client_id, client_secret, redirect_uri, project_id, access_token, refresh_token) ==
    [type |-> "NestClient",
     client_id |-> client_id, client_secret |-> client_secret,
     redirect_uri |-> redirect_uri, project_id |-> project_id,
     access_token |-> access_token, refresh_token |-> refresh_token,
     token_expiry |-> IF access_token # None /\ access_token # ""
                      THEN 3600 ELSE 0 - 1]

NestClient_init(client_id, client_secret, redirect_uri, project_id, access_token, refresh_token) ==
    [type |-> "NestClient",
     client_id |-> client_id, client_secret |-> client_secret,
     redirect_uri |-> redirect_uri, project_id |-> project_id,
     access_token |-> access_token, refresh_token |-> refresh_token,
     token_expiry |-> NoExpiry]

DefaultNestExpiresIn == 3600

NestTokenUrl == "https://oauth2.googleapis.com/token"

\* NestClient_store_tokens without the 3600-second default: an omitted expires_in
\* counts as 0
NestClient_store_tokens_no_default(c, t, r, withRefresh) ==
    IF r.status # "200" \/ r.json # "object"
    THEN [cl |-> c, ok |-> FALSE]
    ELSE LET c1 == [c EXCEPT !.access_token = r.access_token]
             c2 == IF withRefresh
                   THEN [c1 EXCEPT !.refresh_token = r.refresh_token]
                   ELSE c1
         IN  IF r.expires_in.kind = "bad"
             THEN [cl |-> c2, ok |-> FALSE]
             ELSE [cl |-> [c2 EXCEPT !.token_expiry = t + r.expires_in.n],
                   ok |-> Truthy(r.access_token)]

\* the body of the try block after a 200 answer, shared by the two grants:
\* the assignments happen one by one, so an exception in response.json()
\* leaves the session alone and one in timedelta() leaves it half written
NestClient_store_tokens(c, t, r, withRefresh) ==
    IF r.status # "200" \/ r.json # "object"
    THEN [cl |-> c, ok |-> FALSE]
    ELSE LET c1 == [c EXCEPT !.access_token = r.access_token]
             c2 == IF withRefresh
                   THEN [c1 EXCEPT !.refresh_token = r.refresh_token]
                   ELSE c1
             expires_in == IF r.expires_in.kind = "absent"
                           THEN DefaultNestExpiresIn
                           ELSE r.expires_in.n
         IN  IF r.expires_in.kind = "bad"
             THEN [cl |-> c2, ok |-> FALSE]
             ELSE [cl |-> [c2 EXCEPT !.token_expiry = t + expires_in],
                   ok |-> Truthy(r.access_token)]

\* NestClient_exchange_auth_code keeping the access token alone
NestClient_exchange_auth_code_access_only(c, t, auth_code) ==
    {LET s == NestClient_store_tokens(c, t, r, FALSE)
     IN  Out(s.cl, t, RetBool(s.ok),
             <<Req("token", NestTokenUrl, None, "authorization_code", auth_code,
                   NoNum, NoNum, None, r)>>) :
        r \in TokenResponses({None, "at2"}, {None, "rt2"})}

NestClient_exchange_auth_code(c, t, auth_code) ==
    {LET s == NestClient_store_tokens(c, t, r, TRUE)
     IN  Out(s.cl, t, RetBool(s.ok),
             <<Req("token", NestTokenUrl, None, "authorization_code", auth_code,
                   NoNum, NoNum, None, r)>>) :
        r \in TokenResponses({None, "at2"}, {None, "rt2"})}

\* NestClient_refresh_access_token sending the refresh grant a second time when
\* the first attempt failed
NestClient_refresh_access_token_retry(c, t) ==
    LET once(cl) ==
            {LET s == NestClient_store_tokens(cl, t, r, FALSE)
             IN  Out(s.cl, t, RetBool(s.ok),
                     <<Req("token", NestTokenUrl, None, "refresh_token",
                           cl.refresh_token, NoNum, NoNum, None, r)>>) :
                r \in TokenResponses({None, "at2"}, {None})}
    IN  UNION {IF first.ret.b
               THEN {first}
               ELSE {[second EXCEPT !.log = first.log \o @] :
                        second \in once(first.cl)} :
            first \in once(c)}

NestClient_refresh_access_token(c, t) ==
    {LET s == NestClient_store_tokens(c, t, r, FALSE)
     IN  Out(s.cl, t, RetBool(s.ok),
             <<Req("token", NestTokenUrl, None, "refresh_token", c.refresh_token,
                   NoNum, NoNum, None, r)>>) :
        r \in TokenResponses({None, "at2"}, {None})}

\* NestClient_authenticate taking the cached token as valid up to and including
\* its expiry
NestClient_authenticate_inclusive_expiry(c, t, auth_code) ==
    {Returned(o) : o \in
        IF Truthy(c.access_token) /\ c.token_expiry # NoExpiry /\ t <= c.token_expiry
        THEN {Out(c, t, RetBool(TRUE), <<>>)}
        ELSE IF Truthy(c.refresh_token)
        THEN NestClient_refresh_access_token(c, t)
        ELSE IF Truthy(auth_code)
        THEN NestClient_exchange_auth_code(c, t, auth_code)
        ELSE {Out(c, t, RetBool(FALSE), <<>>)}}

NestClient_authenticate(c, t, auth_code) ==
    {Returned(o) : o \in
        IF Truthy(c.access_token) /\ c.token_expiry # NoExpiry /\ t < c.token_expiry
        THEN {Out(c, t, RetBool(TRUE), <<>>)}
        ELSE IF Truthy(c.refresh_token)
        THEN NestClient_refresh_access_token(c, t)
        ELSE IF Truthy(auth_code)
        THEN NestClient_exchange_auth_code(c, t, auth_code)
        ELSE {Out(c, t, RetBool(FALSE), <<>>)}}

(***************************************************************************)
(* PioneerClient                                                           *)
(***************************************************************************)
PioneerClient_init(username, password, device_key) ==
    [type |-> "PioneerClient",
     username |-> username, password |-> password, device_key |-> device_key,
     token |-> None, token_expiry |-> NoExpiry]

PioneerBaseUrl == "https://api.pioneerminisplit.com/api"

\* timedelta(days=30), in seconds
DeviceKeyValidity == 30 * 86400

DefaultPioneerExpiresIn == 86400

\* PioneerClient_login without the try block: an exception of requests.post or of
\* response.json() leaves the method
PioneerClient_login_uncaught(c, t) ==
    {LET rq == <<Req("token", "/auth", None, "password", c.username,
                     NoNum, NoNum, None, r)>>
     IN  IF r.status = "exc" \/ r.json = "bad"
         THEN Out(c, t, RetRaise("ConnectionError"), rq)
         ELSE IF r.status # "200"
         THEN Out(c, t, RetBool(FALSE), rq)
         ELSE Out([c EXCEPT !.token = r.access_token, !.token_expiry = t + 1],
                  t, RetBool(Truthy(r.access_token)), rq) :
        r \in TokenResponses({None, "tk2"}, {None})}

\* the username/password exchange; the vendor's "token" member is carried in
\* the access_token field of the answer
PioneerClient_login(c, t) ==
    {LET rq == <<Req("token", "/auth", None, "password", c.username,
                     NoNum, NoNum, None, r)>>
     IN  IF r.status # "200" \/ r.json # "object"
         THEN Out(c, t, RetBool(FALSE), rq)
         ELSE LET c1 == [c EXCEPT !.token = r.access_token]
                  expires_in == IF r.expires_in.kind = "absent"
                                THEN DefaultPioneerExpiresIn
                                ELSE r.expires_in.n
              IN  IF r.expires_in.kind = "bad"
                  THEN Out(c1, t, RetBool(FALSE), rq)
                  ELSE Out([c1 EXCEPT !.token_expiry = t + expires_in],
                           t, RetBool(Truthy(r.access_token)), rq) :
        r \in TokenResponses({None, "tk2"}, {None})}

\* PioneerClient_authenticate trying username and password before the device key
PioneerClient_authenticate_login_first(c, t) ==
    {Returned(o) : o \in
        IF Truthy(c.token) /\ c.token_expiry # NoExpiry /\ t < c.token_expiry
        THEN {Out(c, t, RetBool(TRUE), <<>>)}
        ELSE IF Truthy(c.username) /\ Truthy(c.password)
        THEN PioneerClient_login(c, t)
        ELSE IF Truthy(c.device_key)
        THEN {Out([c EXCEPT !.token = c.device_key,
                            !.token_expiry = t + DeviceKeyValidity],
                  t, RetBool(TRUE), <<>>)}
        ELSE {Out(c, t, RetBool(FALSE), <<>>)}}

PioneerClient_authenticate(c, t) ==
    {Returned(o) : o \in
        IF Truthy(c.token) /\ c.token_expiry # NoExpiry /\ t < c.token_expiry
        THEN {Out(c, t, RetBool(TRUE), <<>>)}
        ELSE IF Truthy(c.device_key)
        THEN {Out([c EXCEPT !.token = c.device_key,
                            !.token_expiry = t + DeviceKeyValidity],
                  t, RetBool(TRUE), <<>>)}
        ELSE IF ~Truthy(c.username) \/ ~Truthy(c.password)
        THEN {Out(c, t, RetBool(FALSE), <<>>)}
        ELSE PioneerClient_login(c, t)}

NestBaseUrl == "https://smartdevicemanagement.googleapis.com/v1"

\* celsius_to_fahrenheit scaling without adding the 32-degree offset
celsius_to_fahrenheit_no_offset(celsius) == (celsius * 9) \div 5

celsius_to_fahrenheit(celsius) == ((celsius * 9) \div 5) + Deg(32)

\* fahrenheit_to_celsius scaling without subtracting the 32-degree offset
fahrenheit_to_celsius_no_offset(fahrenheit) == (fahrenheit * 5) \div 9

fahrenheit_to_celsius(fahrenheit) == ((fahrenheit - Deg(32)) * 5) \div 9

\* map_nest_mode_to_standard with off as the default
map_nest_mode_to_standard_default_off(nest_mode) ==
    CASE nest_mode = "HEAT" -> "heat"
      [] nest_mode = "COOL" -> "cool"
      [] nest_mode = "HEATCOOL" -> "auto"
      [] OTHER -> "off"

map_nest_mode_to_standard(nest_mode) ==
    CASE nest_mode = "HEAT" -> "heat"
      [] nest_mode = "COOL" -> "cool"
      [] nest_mode = "HEATCOOL" -> "auto"
      [] nest_mode = "OFF" -> "off"
      [] OTHER -> "heat"

\* map_standard_mode_to_nest with OFF as the default
map_standard_mode_to_nest_default_off(mode) ==
    LET m == Lower(mode)
    IN  CASE m = "heat" -> "HEAT"
          [] m = "cool" -> "COOL"
          [] m = "auto" -> "HEATCOOL"
          [] OTHER -> "OFF"

map_standard_mode_to_nest(mode) ==
    LET m == Lower(mode)
    IN  CASE m = "heat" -> "HEAT"
          [] m = "cool" -> "COOL"
          [] m = "auto" -> "HEATCOOL"
          [] m = "off" -> "OFF"
          [] OTHER -> "HEAT"

\* the status dictionary built from a device resource
NestClient_status_of(data) ==
    LET ambient_temp_c == data.ambient
        mode == IF data.mode = None THEN "HEAT" ELSE data.mode
        heat0 == IF data.heat = NoNum THEN 0 ELSE data.heat
        cool0 == IF data.cool = NoNum THEN 0 ELSE data.cool
        target_temp_c ==
            CASE mode = "HEAT" -> data.heat
              [] mode = "COOL" -> data.cool
              [] mode = "HEATCOOL" -> (heat0 + cool0) \div 2
              [] OTHER -> NoNum
        fan_timer_mode == IF data.timerMode = None THEN "OFF" ELSE data.timerMode
        \* "x if v else None": None and 0 are both false
        conv(v) == IF v # NoNum /\ v # 0 THEN celsius_to_fahrenheit(v) ELSE NoNum
    IN  [temperature |-> conv(ambient_temp_c),
         target_temperature |-> conv(target_temp_c),
         mode |-> map_nest_mode_to_standard(mode),
         fan_mode |-> IF fan_timer_mode = "ON" THEN "on" ELSE "auto",
         is_online |-> TRUE,
         humidity |-> data.humidity]

NotAuthenticated == "Not authenticated"

NestClient_get_status(c, t, device_id) ==
    UNION {
        IF ~a.ret.b
        THEN {Out(a.cl, a.now, RetRaise(NotAuthenticated), a.log)}
        ELSE {LET rq == Req("status", "/devices", device_id, "", None,
                            NoNum, NoNum, a.cl.access_token, r)
              IN  Out(a.cl, a.now,
                      IF r.status = "200" /\ r.json = "object"
                      THEN RetStatus(NestClient_status_of(r.data))
                      ELSE RetNone,
                      Append(a.log, rq)) :
                r \in GetResponses(NestPayloads)} :
        a \in NestClient_authenticate(c, t, None)}

\* one POST to <device>:executeCommand; True iff it answers 200
NestClient_execute_command(cl, t, log, device_id, command, mode, n1, n2) ==
    {Out(cl, t, RetBool(r.status = "200"),
         Append(log, Req("command", ":executeCommand", device_id, command,
                         mode, n1, n2, cl.access_token, r))) :
        r \in CommandResponses}

\* the symmetric range around the target in auto mode: 1.1 degrees Celsius
RangeDelta == (11 * Scale) \div 10

\* NestClient_set_temperature sending SetHeat in every mode other than cool and
\* auto, off included
NestClient_set_temperature_off_as_heat(c, t, device_id, temperature) ==
    UNION {
        IF ~a.ret.b
        THEN {Out(a.cl, a.now, RetRaise(NotAuthenticated), a.log)}
        ELSE UNION {
            LET log == a.log \o g.log
                temp_celsius == fahrenheit_to_celsius(temperature)
            IN  IF g.ret.kind = "raise"
                THEN {Out(g.cl, g.now, g.ret, log)}
                ELSE IF g.ret.kind # "status"
                THEN {Out(g.cl, g.now, RetBool(FALSE), log)}
                ELSE IF g.ret.st.mode = "cool"
                THEN NestClient_execute_command(g.cl, g.now, log, device_id, "SetCool",
                                        None, NoNum, temp_celsius)
                ELSE IF g.ret.st.mode = "auto"
                THEN NestClient_execute_command(g.cl, g.now, log, device_id, "SetRange",
                                        None, temp_celsius - RangeDelta,
                                        temp_celsius + RangeDelta)
                ELSE NestClient_execute_command(g.cl, g.now, log, device_id, "SetHeat",
                                        None, temp_celsius, NoNum) :
            g \in NestClient_get_status(a.cl, a.now, device_id)} :
        a \in NestClient_authenticate(c, t, None)}

NestClient_set_temperature(c, t, device_id, temperature) ==
    UNION {
        IF ~a.ret.b
        THEN {Out(a.cl, a.now, RetRaise(NotAuthenticated), a.log)}
        ELSE UNION {
            LET log == a.log \o g.log
                temp_celsius == fahrenheit_to_celsius(temperature)
            IN  IF g.ret.kind = "raise"
                THEN {Out(g.cl, g.now, g.ret, log)}
                ELSE IF g.ret.kind # "status"
                THEN {Out(g.cl, g.now, RetBool(FALSE), log)}
                ELSE IF g.ret.st.mode = "heat"
                THEN NestClient_execute_command(g.cl, g.now, log, device_id, "SetHeat",
                                        None, temp_celsius, NoNum)
                ELSE IF g.ret.st.mode = "cool"
                THEN NestClient_execute_command(g.cl, g.now, log, device_id, "SetCool",
                                        None, NoNum, temp_celsius)
                ELSE IF g.ret.st.mode = "auto"
                THEN NestClient_execute_command(g.cl, g.now, log, device_id, "SetRange",
                                        None, temp_celsius - RangeDelta,
                                        temp_celsius + RangeDelta)
                ELSE {Out(g.cl, g.now, RetBool(FALSE), log)} :
            g \in NestClient_get_status(a.cl, a.now, device_id)} :
        a \in NestClient_authenticate(c, t, None)}

\* NestClient_set_mode ignoring the result of authenticate()
NestClient_set_mode_unchecked(c, t, device_id, mode) ==
    UNION {
        NestClient_execute_command(a.cl, a.now, a.log, device_id, "SetMode",
                           map_standard_mode_to_nest(mode), NoNum, NoNum) :
        a \in NestClient_authenticate(c, t, None)}

NestClient_set_mode(c, t, device_id, mode) ==
    UNION {
        IF ~a.ret.b
        THEN {Out(a.cl, a.now, RetRaise(NotAuthenticated), a.log)}
        ELSE NestClient_execute_command(a.cl, a.now, a.log, device_id, "SetMode",
                                map_standard_mode_to_nest(mode), NoNum, NoNum) :
        a \in NestClient_authenticate(c, t, None)}

\* the duration of the fan timer, in seconds
FanTimerSeconds == 3600

NestClient_set_fan_mode(c, t, device_id, fan_mode) ==
    UNION {
        IF ~a.ret.b
        THEN {Out(a.cl, a.now, RetRaise(NotAuthenticated), a.log)}
        ELSE LET timer_mode == IF Lower(fan_mode) = "on" THEN "ON" ELSE "OFF"
             IN  NestClient_execute_command(a.cl, a.now, a.log, device_id, "SetTimer",
                                    timer_mode,
                                    IF timer_mode = "ON" THEN FanTimerSeconds ELSE 0,
                                    NoNum) :
        a \in NestClient_authenticate(c, t, None)}

\* NestClient_get_schedule authenticating first, as the other operations do
NestClient_get_schedule_authenticated(c, t, device_id) ==
    UNION {
        IF ~a.ret.b
        THEN {Out(a.cl, a.now, RetRaise(NotAuthenticated), a.log)}
        ELSE {Out(a.cl, a.now, RetNone, a.log)} :
        a \in NestClient_authenticate(c, t, None)}

NestClient_get_schedule(c, t, device_id) == {Out(c, t, RetNone, <<>>)}

NestClient_set_schedule(c, t, device_id, schedule) == {Out(c, t, RetBool(FALSE), <<>>)}

(***************************************************************************)
(* PioneerClient, continued                                                *)
(***************************************************************************)
map_standard_mode_to_pioneer(mode) == Lower(mode)

\* PioneerClient_status_of taking the vendor temperature for Celsius
PioneerClient_status_of_converted(data) ==
    [temperature |-> IF data.current_temperature = NoNum THEN NoNum
                     ELSE celsius_to_fahrenheit(data.current_temperature),
     target_temperature |-> data.target_temperature,
     mode |-> Lower(IF data.mode = None THEN "heat" ELSE data.mode),
     fan_mode |-> Lower(IF data.fan_mode = None THEN "auto" ELSE data.fan_mode),
     is_online |-> IF data.is_online = "absent" THEN TRUE
                   ELSE data.is_online = "true",
     humidity |-> data.humidity]

\* the status dictionary built from the flat vendor JSON
PioneerClient_status_of(data) ==
    [temperature |-> data.current_temperature,
     target_temperature |-> data.target_temperature,
     mode |-> Lower(IF data.mode = None THEN "heat" ELSE data.mode),
     fan_mode |-> Lower(IF data.fan_mode = None THEN "auto" ELSE data.fan_mode),
     is_online |-> IF data.is_online = "absent" THEN TRUE
                   ELSE data.is_online = "true",
     humidity |-> data.humidity]

\* PioneerClient_get_status logging in anew instead of calling authenticate()
PioneerClient_get_status_relogin(c, t, device_id) ==
    UNION {
        IF ~a.ret.b
        THEN {Out(a.cl, a.now, RetRaise(NotAuthenticated), a.log)}
        ELSE {LET rq == Req("status", "/status", device_id, "", None,
                            NoNum, NoNum, a.cl.token, r)
              IN  Out(a.cl, a.now,
                      IF r.status = "200" /\ r.json = "object"
                      THEN RetStatus(PioneerClient_status_of(r.data))
                      ELSE RetNone,
                      Append(a.log, rq)) :
                r \in GetResponses(FlatPayloads)} :
        a \in {Returned(o) : o \in PioneerClient_login(c, t)}}

PioneerClient_get_status(c, t, device_id) ==
    UNION {
        IF ~a.ret.b
        THEN {Out(a.cl, a.now, RetRaise(NotAuthenticated), a.log)}
        ELSE {LET rq == Req("status", "/status", device_id, "", None,
                            NoNum, NoNum, a.cl.token, r)
              IN  Out(a.cl, a.now,
                      IF r.status = "200" /\ r.json = "object"
                      THEN RetStatus(PioneerClient_status_of(r.data))
                      ELSE RetNone,
                      Append(a.log, rq)) :
                r \in GetResponses(FlatPayloads)} :
        a \in PioneerClient_authenticate(c, t)}

\* PioneerClient_post counting every answer as a success
PioneerClient_post_any_answer(cl, t, log, url, device_id, mode, n1) ==
    {Out(cl, t, RetBool(r.status # "exc"),
         Append(log, Req("command", url, device_id, "", mode, n1, NoNum,
                         cl.token, r))) :
        r \in CommandResponses}

\* one POST to a device endpoint; True iff it answers 200
PioneerClient_post(cl, t, log, url, device_id, mode, n1) ==
    {Out(cl, t, RetBool(r.status = "200"),
         Append(log, Req("command", url, device_id, "", mode, n1, NoNum,
                         cl.token, r))) :
        r \in CommandResponses}

PioneerClient_set_temperature(c, t, device_id, temperature) ==
    UNION {
        IF ~a.ret.b
        THEN {Out(a.cl, a.now, RetRaise(NotAuthenticated), a.log)}
        ELSE PioneerClient_post(a.cl, a.now, a.log, "/temperature", device_id,
                         None, temperature) :
        a \in PioneerClient_authenticate(c, t)}

PioneerClient_set_mode(c, t, device_id, mode) ==
    UNION {
        IF ~a.ret.b
        THEN {Out(a.cl, a.now, RetRaise(NotAuthenticated), a.log)}
        ELSE PioneerClient_post(a.cl, a.now, a.log, "/mode", device_id,
                         map_standard_mode_to_pioneer(mode), NoNum) :
        a \in PioneerClient_authenticate(c, t)}

PioneerClient_set_fan_mode(c, t, device_id, fan_mode) ==
    UNION {
        IF ~a.ret.b
        THEN {Out(a.cl, a.now, RetRaise(NotAuthenticated), a.log)}
        ELSE PioneerClient_post(a.cl, a.now, a.log, "/fan", device_id,
                         Lower(fan_mode), NoNum) :
        a \in PioneerClient_authenticate(c, t)}

PioneerClient_get_schedule(c, t, device_id) ==
    UNION {
        IF ~a.ret.b
        THEN {Out(a.cl, a.now, RetRaise(NotAuthenticated), a.log)}
        ELSE {LET rq == Req("schedule", "/schedule", device_id, "", None,
                            NoNum, NoNum, a.cl.token, r)
              IN  Out(a.cl, a.now,
                      IF r.status = "200" /\ r.json = "object"
                      THEN RetSchedule(r.data.schedule)
                      ELSE RetNone,
                      Append(a.log, rq)) :
                r \in GetResponses(SchedulePayloads)} :
        a \in PioneerClient_authenticate(c, t)}

PioneerClient_set_schedule(c, t, device_id, schedule) ==
    UNION {
        IF ~a.ret.b
        THEN {Out(a.cl, a.now, RetRaise(NotAuthenticated), a.log)}
        ELSE PioneerClient_post(a.cl, a.now, a.log, "/schedule", device_id,
                         schedule, NoNum) :
        a \in PioneerClient_authenticate(c, t)}

(***************************************************************************)
(* CieloClient: the token-based variant.  Its module is imported by the    *)
(* factory but is not among the sources; it is modelled from the           *)
(* specification: one POST of the credentials (or a pre-supplied token),   *)
(* the token cached with its expiry, and status/command semantics shared   *)
(* with the device-key variant.                                            *)
(***************************************************************************)
CieloClient_init(username, password, token) ==
    [type |-> "CieloClient",
     username |-> username, password |-> password,
     token |-> token, token_expiry |-> NoExpiry]

CieloClient_authenticate(c, t) ==
    {Returned(o) : o \in
        IF Truthy(c.token) /\ (c.token_expiry = NoExpiry \/ t < c.token_expiry)
        THEN {Out(c, t, RetBool(TRUE), <<>>)}
        ELSE IF ~Truthy(c.username) \/ ~Truthy(c.password)
        THEN {Out(c, t, RetBool(FALSE), <<>>)}
        ELSE {LET rq == <<Req("token", "/auth", None, "password", c.username,
                              NoNum, NoNum, None, r)>>
              IN  IF r.status = "200" /\ r.json = "object"
                     /\ r.expires_in.kind = "int" /\ Truthy(r.access_token)
                  THEN Out([c EXCEPT !.token = r.access_token,
                                     !.token_expiry = t + r.expires_in.n],
                           t, RetBool(TRUE), rq)
                  ELSE Out(c, t, RetBool(FALSE), rq) :
                r \in TokenResponses({None, "tk2"}, {None})}}

\* every Cielo operation: authenticate, then one request
CieloClient_request(c, t, op, device_id, mode, n1) ==
    UNION {
        IF ~a.ret.b
        THEN {Out(a.cl, a.now, RetRaise(NotAuthenticated), a.log)}
        ELSE IF op = "get_status"
        THEN {Out(a.cl, a.now,
                  IF r.status = "200" /\ r.json = "object"
                  THEN RetStatus(PioneerClient_status_of(r.data)) ELSE RetNone,
                  Append(a.log, Req("status", "/status", device_id, "", None,
                                    NoNum, NoNum, a.cl.token, r))) :
                r \in GetResponses(FlatPayloads)}
        ELSE IF op = "get_schedule"
        THEN {Out(a.cl, a.now,
                  IF r.status = "200" /\ r.json = "object"
                  THEN RetSchedule(r.data.schedule) ELSE RetNone,
                  Append(a.log, Req("schedule", "/schedule", device_id, "", None,
                                    NoNum, NoNum, a.cl.token, r))) :
                r \in GetResponses(SchedulePayloads)}
        ELSE PioneerClient_post(a.cl, a.now, a.log, op, device_id, mode, n1) :
        a \in CieloClient_authenticate(c, t)}

(***************************************************************************)
(* ThermostatClientFactory                                                 *)
(***************************************************************************)
NoClient == [type |-> "none"]

\* create_client falling back to a NestClient for an unknown type
create_client_with_default(thermostat_type, kwargs) ==
    IF thermostat_type = "CIELO"
    THEN [raised |-> FALSE, msg |-> "",
          cl |-> CieloClient_init(Get(kwargs, "username"), Get(kwargs, "password"),
                             Get(kwargs, "token"))]
    ELSE IF thermostat_type = "PIONEER"
    THEN [raised |-> FALSE, msg |-> "",
          cl |-> PioneerClient_init(Get(kwargs, "username"), Get(kwargs, "password"),
                               Get(kwargs, "device_key"))]
    ELSE [raised |-> FALSE, msg |-> "",
          cl |-> NestClient_init(Get(kwargs, "client_id"), Get(kwargs, "client_secret"),
                            Get(kwargs, "redirect_uri"), Get(kwargs, "project_id"),
                            Get(kwargs, "access_token"), Get(kwargs, "refresh_token"))]

\* the client built, or the ValueError raised
create_client(thermostat_type, kwargs) ==
    IF thermostat_type = "NEST"
    THEN [raised |-> FALSE, msg |-> "",
          cl |-> NestClient_init(Get(kwargs, "client_id"), Get(kwargs, "client_secret"),
                            Get(kwargs, "redirect_uri"), Get(kwargs, "project_id"),
                            Get(kwargs, "access_token"), Get(kwargs, "refresh_token"))]
    ELSE IF thermostat_type = "CIELO"
    THEN [raised |-> FALSE, msg |-> "",
          cl |-> CieloClient_init(Get(kwargs, "username"), Get(kwargs, "password"),
                             Get(kwargs, "token"))]
    ELSE IF thermostat_type = "PIONEER"
    THEN [raised |-> FALSE, msg |-> "",
          cl |-> PioneerClient_init(Get(kwargs, "username"), Get(kwargs, "password"),
                               Get(kwargs, "device_key"))]
    ELSE [raised |-> TRUE, msg |-> "Unsupported thermostat type", cl |-> NoClient]

(***************************************************************************)
(* A client used directly: built by the factory, then called any number    *)
(* of times while the clock advances.                                      *)
(***************************************************************************)
DeviceIds == {"dev1"}

AuthCodes == {None, "code1"}

ModeArgs == {"heat", "COOL", "Auto", "off", "dry"}

FanModeArgs == {"ON", "auto"}

\* Fahrenheit targets
TemperatureArgs == {Deg(72)}

ThermostatTypes == {"NEST", "CIELO", "PIONEER", "INVALID"}

NestKwargs ==
    {[client_id |-> "cid", client_secret |-> "sec", redirect_uri |-> "uri",
      project_id |-> "proj", access_token |-> a, refresh_token |-> r] :
        a \in {None, "at1"}, r \in {None, "rt1"}}

PioneerKwargs ==
    {[username |-> "user", password |-> p, device_key |-> k] :
        p \in {None, "pw"}, k \in {None, "dk1"}}

CieloKwargs ==
    {[username |-> "user", password |-> "pw", token |-> k] : k \in {None, "tk1"}}

\* the keyword arguments a caller may pass for a type; <<>> is "no keywords"
KwargsOf(thermostat_type) ==
    CASE thermostat_type = "NEST" -> NestKwargs \cup {<<>>}
      [] thermostat_type = "PIONEER" -> PioneerKwargs \cup {<<>>}
      [] thermostat_type = "CIELO" -> CieloKwargs \cup {<<>>}
      [] OTHER -> {<<>>}

NoArgs == [tag |-> None, auth_code |-> None, device_id |-> None, mode |-> None, n |-> NoNum]

\* the method of the client's class (dynamic dispatch on the instance)
NestClient_call(c, t, op, args) ==
    CASE op = "authenticate" -> NestClient_authenticate(c, t, args.auth_code)
      [] op = "get_status" -> NestClient_get_status(c, t, args.device_id)
      [] op = "set_temperature" -> NestClient_set_temperature(c, t, args.device_id, args.n)
      [] op = "set_mode" -> NestClient_set_mode(c, t, args.device_id, args.mode)
      [] op = "set_fan_mode" -> NestClient_set_fan_mode(c, t, args.device_id, args.mode)
      [] op = "get_schedule" -> NestClient_get_schedule(c, t, args.device_id)
      [] op = "set_schedule" -> NestClient_set_schedule(c, t, args.device_id, args.mode)

PioneerClient_call(c, t, op, args) ==
    CASE op = "authenticate" -> PioneerClient_authenticate(c, t)
      [] op = "get_status" -> PioneerClient_get_status(c, t, args.device_id)
      [] op = "set_temperature" -> PioneerClient_set_temperature(c, t, args.device_id, args.n)
      [] op = "set_mode" -> PioneerClient_set_mode(c, t, args.device_id, args.mode)
      [] op = "set_fan_mode" -> PioneerClient_set_fan_mode(c, t, args.device_id, args.mode)
      [] op = "get_schedule" -> PioneerClient_get_schedule(c, t, args.device_id)
      [] op = "set_schedule" -> PioneerClient_set_schedule(c, t, args.device_id, args.mode)

CieloClient_call(c, t, op, args) ==
    CASE op = "authenticate" -> CieloClient_authenticate(c, t)
      [] op \in {"set_mode", "set_fan_mode"} ->
            CieloClient_request(c, t, op, args.device_id, Lower(args.mode), args.n)
      [] OTHER -> CieloClient_request(c, t, op, args.device_id, args.mode, args.n)

\* the method of the client's class (dynamic dispatch on the instance)
ClientCall(c, t, op, args) ==
    CASE c.type = "NestClient" -> NestClient_call(c, t, op, args)
      [] c.type = "PioneerClient" -> PioneerClient_call(c, t, op, args)
      [] c.type = "CieloClient" -> CieloClient_call(c, t, op, args)

NoLast ==
    [op |-> "none", args |-> NoArgs, pre |-> NoClient, t0 |-> 0, t1 |-> 0,
     ret |-> RetNone, log |-> <<>>, seq |-> 0]

NoThermostat == [type |-> None]

\* the call that is waiting for the answer to its latest request: its
\* method, its arguments and the requests it sent, the latest one unanswered
Pending(op, args, log) == [op |-> op, args |-> args, log |-> log]

NoPending == Pending("none", NoArgs, <<>>)

\* a temperature taken through one conversion and back through the other:
\* the unit it started in, the value, the converted value and the value
\* converted back
Conversion(unit, input, there, back) ==
    [unit |-> unit, input |-> input, there |-> there, back |-> back]

NoConversion == Conversion("none", 0, 0, 0)

\* the argument lists of a method of the client
ArgsFor(c, op) ==
    CASE op = "authenticate" ->
            {[NoArgs EXCEPT !.auth_code = a] :
                a \in IF c.type = "NestClient" THEN AuthCodes ELSE {None}}
      [] op \in {"get_status", "get_schedule"} ->
            {[NoArgs EXCEPT !.device_id = d] : d \in DeviceIds}
      [] op = "set_temperature" ->
            {[NoArgs EXCEPT !.device_id = d, !.n = f] :
                d \in DeviceIds, f \in TemperatureArgs}
      [] op = "set_mode" ->
            {[NoArgs EXCEPT !.device_id = d, !.mode = m] :
                d \in DeviceIds, m \in ModeArgs}
      [] op = "set_fan_mode" ->
            {[NoArgs EXCEPT !.device_id = d, !.mode = m] :
                d \in DeviceIds, m \in FanModeArgs}
      [] op = "set_schedule" ->
            {[NoArgs EXCEPT !.device_id = d, !.mode = s] :
                d \in DeviceIds, s \in Schedules}

ClientOps ==
    {"authenticate", "get_status", "set_temperature", "set_mode",
     "set_fan_mode", "get_schedule", "set_schedule"}

Init ==
    /\ client = NoClient
    /\ now = 0
    /\ last = NoLast
    /\ thermostat = NoThermostat
    /\ settings = <<>>
    /\ calls = <<>>
    /\ pending = NoPending
    /\ conversion = NoConversion

\* ThermostatClientFactory.create_client(thermostat_type, **kwargs)
Create(tag, kwargs) ==
    LET r == create_client(tag, kwargs)
    IN  /\ client = NoClient
        /\ client' = IF r.raised THEN client ELSE r.cl
        /\ last' = [op |-> "create_client", args |-> [NoArgs EXCEPT !.tag = tag],
                    pre |-> r.cl, t0 |-> now, t1 |-> now,
                    ret |-> IF r.raised THEN RetRaise(r.msg) ELSE RetNone,
                    log |-> <<>>, seq |-> 0]
        /\ UNCHANGED <<now, thermostat, settings, calls, pending, conversion>>

\* one call of a method of the client, every request of which is answered;
\* the caller makes one call at a time
Call(op, args) ==
    /\ client # NoClient
    /\ pending = NoPending
    /\ last.seq < MaxCalls
    /\ \E o \in ClientCall(client, now, op, args) :
        /\ client' = o.cl
        /\ now' = o.now
        /\ last' = [op |-> op, args |-> args, pre |-> client, t0 |-> now,
                    t1 |-> o.now,
                    ret |-> o.ret, log |-> o.log, seq |-> last.seq + 1]
    /\ UNCHANGED <<thermostat, settings, calls, pending, conversion>>

Authenticate ==
    \E a \in AuthCodes :
        /\ (a # None => client.type = "NestClient")
        /\ Call("authenticate", [NoArgs EXCEPT !.auth_code = a])

GetStatus ==
    \E d \in DeviceIds : Call("get_status", [NoArgs EXCEPT !.device_id = d])

SetTemperature ==
    \E d \in DeviceIds, f \in TemperatureArgs :
        Call("set_temperature", [NoArgs EXCEPT !.device_id = d, !.n = f])

SetMode ==
    \E d \in DeviceIds, m \in ModeArgs :
        Call("set_mode", [NoArgs EXCEPT !.device_id = d, !.mode = m])

SetFanMode ==
    \E d \in DeviceIds, m \in FanModeArgs :
        Call("set_fan_mode", [NoArgs EXCEPT !.device_id = d, !.mode = m])

GetSchedule ==
    \E d \in DeviceIds : Call("get_schedule", [NoArgs EXCEPT !.device_id = d])

SetSchedule ==
    \E d \in DeviceIds, s \in Schedules :
        Call("set_schedule", [NoArgs EXCEPT !.device_id = d, !.mode = s])

\* time passes between calls
Tick ==
    /\ now < MaxNow
    /\ now' = now + 1
    /\ UNCHANGED <<client, last, thermostat, settings, calls, pending, conversion>>

\* a call one request of which the vendor never answers: requests.get and
\* requests.post are called without timeout=, so the call waits in that
\* request and nothing ends the wait.  The requests before it were answered
\* as in some complete call.
Unanswered ==
    /\ client # NoClient
    /\ pending = NoPending
    /\ last.seq < MaxCalls
    /\ \E op \in ClientOps : \E args \in ArgsFor(client, op) :
       \E o \in ClientCall(client, now, op, args) :
       \E k \in DOMAIN o.log :
            /\ o.log[k].kind # "authenticate"
            /\ pending' = Pending(op, args,
                    Append(SubSeq(o.log, 1, k - 1),
                           [o.log[k] EXCEPT !.resp = NoResponse]))
    /\ UNCHANGED <<client, now, last, thermostat, settings, calls, conversion>>

Next ==
    \/ \E tag \in ThermostatTypes : \E kw \in KwargsOf(tag) : Create(tag, kw)
    \/ Authenticate
    \/ GetStatus
    \/ SetTemperature
    \/ SetMode
    \/ SetFanMode
    \/ GetSchedule
    \/ SetSchedule
    \/ Tick

Spec == Init /\ [][Next]_vars

\* a client is built and its first call meets a vendor that does not answer
LiveNext ==
    \/ \E tag \in ThermostatTypes : \E kw \in KwargsOf(tag) : Create(tag, kw)
    \/ Unanswered
    \/ Tick

\* the caller and the clock keep going; the vendor is free never to answer
SpecLive == Init /\ [][LiveNext]_vars /\ WF_vars(LiveNext)

(***************************************************************************)
(* The two unit conversions of the NestClient, applied to temperatures      *)
(* between -MaxDegrees and MaxDegrees: whole degrees and fractions of a    *)
(* degree, which the division does not always split evenly.                *)
(***************************************************************************)
\* the largest temperature converted, in degrees
MaxDegrees == 120

\* fractions of a degree, in units of 1/Scale
Fractions == {0, 1, Scale \div 2, Scale - 1}

Temperatures == {Deg(d) + k : d \in (0 - MaxDegrees)..MaxDegrees, k \in Fractions}

\* _celsius_to_fahrenheit(_fahrenheit_to_celsius(f))
FahrenheitRoundTrip(f) ==
    /\ conversion = NoConversion
    /\ conversion' = Conversion("F", f, fahrenheit_to_celsius(f),
                                celsius_to_fahrenheit(fahrenheit_to_celsius(f)))
    /\ UNCHANGED <<client, now, last, thermostat, settings, calls, pending>>

\* _fahrenheit_to_celsius(_celsius_to_fahrenheit(c))
CelsiusRoundTrip(c) ==
    /\ conversion = NoConversion
    /\ conversion' = Conversion("C", c, celsius_to_fahrenheit(c),
                                fahrenheit_to_celsius(celsius_to_fahrenheit(c)))
    /\ UNCHANGED <<client, now, last, thermostat, settings, calls, pending>>

ConvertNext ==
    \/ \E f \in Temperatures : FahrenheitRoundTrip(f)
    \/ \E c \in Temperatures : CelsiusRoundTrip(c)

SpecConvert == Init /\ [][ConvertNext]_vars

(***************************************************************************)
(* The view-set extension: one handler per operation.  A handler checks    *)
(* its parameter, resolves the stored credential, builds a client,         *)
(* authenticates and performs the operation; the steps of one call are     *)
(* separate actions, so that the clock may advance and another call may    *)
(* run between them.                                                       *)
(***************************************************************************)
\* thermostat.api_key values
ApiKeys ==
    {"", "tok123", "12345", "null",
     "{\"access_token\":\"at1\"}",
     "{\"access_token\":\"at1\",\"refresh_token\":\"rt1\"}",
     "{\"client_id\":\"devcid\",\"refresh_token\":\"rt1\"}",
     "{\"device_key\":\"dk1\"}",
     "{\"username\":\"user\",\"password\":\"pw\"}"}

\* json.loads on the strings of ApiKeys: the object parsed, another JSON
\* value, or JSONDecodeError
JsonLoads(s) ==
    CASE s = "{\"access_token\":\"at1\"}" ->
            [kind |-> "object", fields |-> [access_token |-> "at1"]]
      [] s = "{\"access_token\":\"at1\",\"refresh_token\":\"rt1\"}" ->
            [kind |-> "object",
             fields |-> [access_token |-> "at1", refresh_token |-> "rt1"]]
      [] s = "{\"client_id\":\"devcid\",\"refresh_token\":\"rt1\"}" ->
            [kind |-> "object",
             fields |-> [client_id |-> "devcid", refresh_token |-> "rt1"]]
      [] s = "{\"device_key\":\"dk1\"}" ->
            [kind |-> "object", fields |-> [device_key |-> "dk1"]]
      [] s = "{\"username\":\"user\",\"password\":\"pw\"}" ->
            [kind |-> "object", fields |-> [username |-> "user", password |-> "pw"]]
      [] s = "12345" -> [kind |-> "number", fields |-> <<>>]
      [] s = "null" -> [kind |-> "null", fields |-> <<>>]
      [] OTHER -> [kind |-> "error", fields |-> <<>>]

\* getattr(settings, name, default)
GetAttr(st, name, default) == IF name \in DOMAIN st THEN st[name] ELSE default

AttributeError == "object has no attribute 'get'"

\* the credentials dictionary of _get_client_kwargs
Credentials(th) ==
    IF th.api_key # ""
    THEN LET j == JsonLoads(th.api_key)
         IN  IF j.kind = "error"
             THEN [kind |-> "object", fields |-> [token |-> th.api_key]]
             ELSE j
    ELSE [kind |-> "object", fields |-> <<>>]

\* get_client_kwargs taking the shared application fields from the stored
\* credential first and from the settings only when the credential lacks them
get_client_kwargs_stored_first(th, st) ==
    LET credentials == Credentials(th)
        f == credentials.fields
        pick(k, name) == IF k \in DOMAIN f THEN f[k] ELSE GetAttr(st, name, None)
    IN  IF th.type \notin {"NEST", "CIELO", "PIONEER"}
        THEN [raised |-> FALSE, msg |-> "", kwargs |-> <<>>]
        ELSE IF credentials.kind # "object"
        THEN [raised |-> TRUE, msg |-> AttributeError, kwargs |-> <<>>]
        ELSE IF th.type = "NEST"
        THEN [raised |-> FALSE, msg |-> "",
              kwargs |->
                [client_id |-> pick("client_id", "NEST_CLIENT_ID"),
                 client_secret |-> pick("client_secret", "NEST_CLIENT_SECRET"),
                 redirect_uri |-> pick("redirect_uri", "NEST_REDIRECT_URI"),
                 project_id |-> pick("project_id", "NEST_PROJECT_ID"),
                 access_token |-> Get(f, "access_token"),
                 refresh_token |-> Get(f, "refresh_token")]]
        ELSE IF th.type = "CIELO"
        THEN [raised |-> FALSE, msg |-> "",
              kwargs |-> [username |-> Get(f, "username"),
                          password |-> Get(f, "password"),
                          token |-> Get(f, "token")]]
        ELSE [raised |-> FALSE, msg |-> "",
              kwargs |-> [username |-> Get(f, "username"),
                          password |-> Get(f, "password"),
                          device_key |-> Get(f, "device_key")]]

\* the keyword arguments, or the exception of credentials.get on a JSON
\* value that is not an object
get_client_kwargs(th, st) ==
    LET credentials == Credentials(th)
        f == credentials.fields
    IN  IF th.type \notin {"NEST", "CIELO", "PIONEER"}
        THEN [raised |-> FALSE, msg |-> "", kwargs |-> <<>>]
        ELSE IF credentials.kind # "object"
        THEN [raised |-> TRUE, msg |-> AttributeError, kwargs |-> <<>>]
        ELSE IF th.type = "NEST"
        THEN [raised |-> FALSE, msg |-> "",
              kwargs |->
                [client_id |-> GetAttr(st, "NEST_CLIENT_ID", Get(f, "client_id")),
                 client_secret |-> GetAttr(st, "NEST_CLIENT_SECRET", Get(f, "client_secret")),
                 redirect_uri |-> GetAttr(st, "NEST_REDIRECT_URI", Get(f, "redirect_uri")),
                 project_id |-> GetAttr(st, "NEST_PROJECT_ID", Get(f, "project_id")),
                 access_token |-> Get(f, "access_token"),
                 refresh_token |-> Get(f, "refresh_token")]]
        ELSE IF th.type = "CIELO"
        THEN [raised |-> FALSE, msg |-> "",
              kwargs |-> [username |-> Get(f, "username"),
                          password |-> Get(f, "password"),
                          token |-> Get(f, "token")]]
        ELSE [raised |-> FALSE, msg |-> "",
              kwargs |-> [username |-> Get(f, "username"),
                          password |-> Get(f, "password"),
                          device_key |-> Get(f, "device_key")]]

\* request parameters: absent, a JSON number or a JSON string
NoParam == [kind |-> "absent", n |-> 0, s |-> ""]

NumParam(n) == [kind |-> "num", n |-> n, s |-> ""]

StrParam(s) == [kind |-> "str", n |-> 0, s |-> s]

\* "not value"
Falsy(p) ==
    \/ p.kind = "absent"
    \/ p.kind = "num" /\ p.n = 0
    \/ p.kind = "str" /\ p.s \in {"", "{}"}

\* float(value) on a present parameter: the number, or ValueError
Float(p) ==
    IF p.kind = "num" THEN [raised |-> FALSE, n |-> Deg(p.n)]
    ELSE IF p.s = "72" THEN [raised |-> FALSE, n |-> Deg(72)]
    ELSE [raised |-> TRUE, n |-> 0]

ValueError == "could not convert string to float"

FacadeOps ==
    {"status", "set_temperature", "set_mode", "set_fan_mode", "schedule", "set_schedule"}

\* the parameters a request may carry for an operation
ParamsOf(op) ==
    CASE op = "set_temperature" ->
            {NoParam, NumParam(72), NumParam(0), StrParam("72"), StrParam("abc")}
      [] op = "set_mode" -> {NoParam, StrParam("heat"), StrParam("Auto"), StrParam("")}
      [] op = "set_fan_mode" -> {NoParam, StrParam("ON"), StrParam("auto")}
      [] op = "set_schedule" -> {StrParam("{}"), StrParam("sched1")}
      [] OTHER -> {NoParam}

\* the client method behind a handler
ClientOp(op) ==
    CASE op = "status" -> "get_status"
      [] op = "schedule" -> "get_schedule"
      [] OTHER -> op

RequiredError(op) ==
    CASE op = "set_temperature" -> "Temperature is required"
      [] op = "set_mode" -> "Mode is required"
      [] op = "set_fan_mode" -> "Fan mode is required"
      [] op = "set_schedule" -> "Schedule data is required"
      [] OTHER -> ""

FailedError(op) ==
    CASE op = "status" -> "Failed to get thermostat status"
      [] op = "set_temperature" -> "Failed to set temperature"
      [] op = "set_mode" -> "Failed to set mode"
      [] op = "set_fan_mode" -> "Failed to set fan mode"
      [] op = "schedule" -> "Failed to get schedule or not supported"
      [] OTHER -> "Failed to set schedule or not supported"

HttpResponse(code, error) == [code |-> code, error |-> error]

NoHttpResponse == HttpResponse(0, "")

CallIds == {1}

IdleCall ==
    [pc |-> "idle", op |-> "none", param |-> NoParam, cl |-> NoClient,
     checked |-> FALSE, kwargs |-> <<>>, n_auth |-> 0, n_op |-> 0,
     auth_ret |-> "none", op_ret |-> RetNone, exc |-> None,
     resp |-> NoHttpResponse, log |-> <<>>, wrote |-> FALSE]

Done(call, code, error) ==
    [call EXCEPT !.pc = "done", !.resp = HttpResponse(code, error)]

\* Caught without the except clause: the exception leaves the handler
Uncaught(call, msg) ==
    [call EXCEPT !.pc = "escaped", !.exc = msg]

\* "except Exception as e": the 500 answer carrying str(e)
Caught(call, msg) ==
    [call EXCEPT !.pc = "done", !.exc = msg, !.resp = HttpResponse(500, msg)]

\* the handler up to the construction of the client
HandlerBegin(th, st, op, param) ==
    LET call == [IdleCall EXCEPT !.op = op, !.param = param]
        kw == get_client_kwargs(th, st)
        built == create_client(th.type, kw.kwargs)
    IN  IF op \in {"set_temperature", "set_mode", "set_fan_mode", "set_schedule"}
           /\ Falsy(param)
        THEN Done(call, 400, RequiredError(op))
        ELSE IF kw.raised
        THEN Caught([call EXCEPT !.checked = TRUE], kw.msg)
        ELSE IF built.raised
        THEN Caught([call EXCEPT !.checked = TRUE, !.kwargs = kw.kwargs], built.msg)
        ELSE [call EXCEPT !.pc = "built", !.checked = TRUE,
                          !.kwargs = kw.kwargs, !.cl = built.cl]

\* HandlerAuthenticate going on to the operation whatever authenticate()
\* returned
HandlerAuthenticateIgnored(call, o) ==
    [call EXCEPT !.cl = o.cl, !.n_auth = @ + 1, !.log = @ \o o.log,
                 !.auth_ret = IF o.ret.b THEN "true" ELSE "false",
                 !.pc = "authenticated"]

\* "if client.authenticate():" and the 401 answer
HandlerAuthenticate(call, o) ==
    LET c1 == [call EXCEPT !.cl = o.cl, !.n_auth = @ + 1,
                           !.log = @ \o o.log,
                           !.auth_ret = IF o.ret.kind = "raise" THEN "raise"
                                        ELSE IF o.ret.b THEN "true" ELSE "false"]
    IN  IF o.ret.kind = "raise"
        THEN Caught(c1, o.ret.msg)
        ELSE IF o.ret.b
        THEN [c1 EXCEPT !.pc = "authenticated"]
        ELSE Done(c1, 401, "Authentication failed")

\* the arguments of the client method; float(temperature) may raise
HandlerArgs(call, th) ==
    LET f == Float(call.param)
    IN  IF call.op = "set_temperature"
        THEN [raised |-> f.raised,
              args |-> [NoArgs EXCEPT !.device_id = th.device_id, !.n = f.n]]
        ELSE [raised |-> FALSE,
              args |-> [NoArgs EXCEPT !.device_id = th.device_id,
                                      !.mode = call.param.s]]

\* the call after the client method returned o (or raised), and the
\* thermostat record after the handler; saved tells whether
\* thermostat.save() succeeded
HandlerOperate(call, th, t, o, saved) ==
    LET c1 == [call EXCEPT !.cl = o.cl, !.n_op = @ + 1, !.op_ret = o.ret,
                           !.log = @ \o o.log]
    IN  IF o.ret.kind = "raise"
        THEN [call |-> Caught(c1, o.ret.msg), th |-> th]
        ELSE IF ~o.ret.b
        THEN [call |-> Done(c1, 400, FailedError(call.op)), th |-> th]
        ELSE IF call.op # "status"
        THEN [call |-> Done(c1, 200, ""), th |-> th]
        ELSE IF ~saved
        THEN [call |-> Caught(c1, "database error"), th |-> th]
        ELSE [call |-> Done([c1 EXCEPT !.wrote = TRUE], 200, ""),
              th |-> [th EXCEPT !.last_temperature = o.ret.st.temperature,
                                !.last_updated = t,
                                !.is_online = TRUE]]

Thermostats ==
    {[type |-> ty, device_id |-> "dev1", api_key |-> k,
      last_temperature |-> NoNum, last_updated |-> NoExpiry, is_online |-> FALSE] :
        ty \in ThermostatTypes, k \in ApiKeys}

\* django.conf.settings: nothing configured, the shared Nest application, or
\* only NEST_CLIENT_ID defined (and empty)
SettingsValues ==
    {<<>>,
     [NEST_CLIENT_ID |-> "appcid", NEST_CLIENT_SECRET |-> "appsec",
      NEST_REDIRECT_URI |-> "appuri", NEST_PROJECT_ID |-> "appproj"],
     [NEST_CLIENT_ID |-> ""]}

FacadeInit ==
    /\ client = NoClient
    /\ now = 0
    /\ last = NoLast
    /\ thermostat \in Thermostats
    /\ settings \in SettingsValues
    /\ calls = [c \in CallIds |-> IdleCall]
    /\ pending = NoPending
    /\ conversion = NoConversion

\* StoreCall with one client object shared by the handlers: the client a
\* call builds or updates replaces the client of every call in progress
StoreCallShared(cs, c, call) ==
    [d \in DOMAIN cs |->
        IF d = c THEN call
        ELSE IF cs[d].pc \in {"built", "authenticated"} /\ call.cl # NoClient
        THEN [cs[d] EXCEPT !.cl = call.cl]
        ELSE cs[d]]

\* the client and the other locals of a handler belong to its own request
StoreCall(cs, c, call) == [cs EXCEPT ![c] = call]

\* the start of a handler for one of the requests reqs, each an operation
\* with its parameter
BeginWith(c, reqs) ==
    /\ calls[c].pc = "idle"
    /\ \E rq \in reqs :
        calls' = StoreCall(calls, c,
                           HandlerBegin(thermostat, settings, rq.op, rq.param))
    /\ UNCHANGED <<client, now, last, thermostat, settings, pending, conversion>>

Begin(c) ==
    BeginWith(c, UNION {{[op |-> op, param |-> param] : param \in ParamsOf(op)} :
                            op \in FacadeOps})

FacadeAuthenticate(c) ==
    /\ calls[c].pc = "built"
    /\ \E o \in ClientCall(calls[c].cl, now, "authenticate", NoArgs) :
        /\ calls' = StoreCall(calls, c, HandlerAuthenticate(calls[c], o))
        /\ now' = o.now
    /\ UNCHANGED <<client, last, thermostat, settings, pending, conversion>>

Operate(c) ==
    /\ calls[c].pc = "authenticated"
    /\ LET a == HandlerArgs(calls[c], thermostat)
       IN  IF a.raised
           THEN /\ calls' = StoreCall(calls, c, Caught(calls[c], ValueError))
                /\ UNCHANGED <<now, thermostat>>
           ELSE \E o \in ClientCall(calls[c].cl, now, ClientOp(calls[c].op), a.args) :
                \E saved \in IF calls[c].op = "status" /\ o.ret.kind = "status"
                             THEN BOOLEAN ELSE {TRUE} :
                    LET h == HandlerOperate(calls[c], thermostat, o.now, o, saved)
                    IN  /\ calls' = StoreCall(calls, c, h.call)
                        /\ thermostat' = h.th
                        /\ now' = o.now
    /\ UNCHANGED <<client, last, settings, pending, conversion>>

FacadeTick ==
    /\ now < MaxNow
    /\ now' = now + 1
    /\ UNCHANGED <<client, last, thermostat, settings, calls, pending, conversion>>

FacadeNext ==
    \/ \E c \in CallIds : Begin(c)
    \/ \E c \in CallIds : FacadeAuthenticate(c)
    \/ \E c \in CallIds : Operate(c)
    \/ FacadeTick

SpecFacade == FacadeInit /\ [][FacadeNext]_vars

(***************************************************************************)
(* Two requests for the same device handled at the same time: a status     *)
(* poll and a command of the user, whose steps interleave in any order.    *)
(***************************************************************************)
ConcurrentCallIds == {1, 2}

\* the requests: a status poll, and a command: set_temperature to 72 degrees
\* for the device-key vendor, set_mode to heat for the device-management API
ConcurrentRequests(c, th) ==
    IF c = 1
    THEN {[op |-> "status", param |-> NoParam]}
    ELSE IF th.type = "NEST"
    THEN {[op |-> "set_mode", param |-> StrParam("heat")]}
    ELSE {[op |-> "set_temperature", param |-> NumParam(72)]}

\* devices whose authenticate() writes the session of the client
ConcurrentThermostats ==
    {th \in Thermostats :
        \/ /\ th.type = "NEST"
           /\ th.api_key = "{\"access_token\":\"at1\",\"refresh_token\":\"rt1\"}"
        \/ /\ th.type = "PIONEER"
           /\ th.api_key = "{\"username\":\"user\",\"password\":\"pw\"}"}

ConcurrentInit ==
    /\ client = NoClient
    /\ now = 0
    /\ last = NoLast
    /\ thermostat \in ConcurrentThermostats
    /\ settings = <<>>
    /\ calls = [c \in ConcurrentCallIds |-> IdleCall]
    /\ pending = NoPending
    /\ conversion = NoConversion

ConcurrentNext ==
    \/ \E c \in ConcurrentCallIds : BeginWith(c, ConcurrentRequests(c, thermostat))
    \/ \E c \in ConcurrentCallIds : FacadeAuthenticate(c)
    \/ \E c \in ConcurrentCallIds : Operate(c)
    \/ FacadeTick

SpecConcurrent == ConcurrentInit /\ [][ConcurrentNext]_vars

(***************************************************************************)
(* Properties of the clients and of the factory.                           *)
(***************************************************************************)
MutatingOps == {"set_temperature", "set_mode", "set_fan_mode", "set_schedule"}

Entries(kinds) == {i \in DOMAIN last.log : last.log[i].kind \in kinds}

AuthReturns(b) ==
    {i \in DOMAIN last.log :
        /\ last.log[i].kind = "authenticate"
        /\ last.log[i].resp.status = (IF b THEN "true" ELSE "false")}

\* the session of the client before the call still held an unexpired token
CachedValid ==
    IF last.pre.type = "NestClient"
    THEN /\ Truthy(last.pre.access_token)
         /\ last.pre.token_expiry # NoExpiry
         /\ last.t0 < last.pre.token_expiry
    ELSE /\ Truthy(last.pre.token)
         /\ last.pre.token_expiry # NoExpiry
         /\ last.t0 < last.pre.token_expiry

C1_WitnessCommand ==
    /\ last.op = "set_mode"
    /\ last.pre.type = "PioneerClient"
    /\ Entries({"command"}) # {}

\* C2: get_status of NestClient and PioneerClient never raises, and returns
\* None whenever its authenticate() returned false or the status request
\* raised or answered non-200.
C2_GetStatusNeverRaises ==
    (last.op = "get_status" /\ last.pre.type \in {"NestClient", "PioneerClient"}) =>
        /\ last.ret.kind # "raise"
        /\ (\/ AuthReturns(FALSE) # {}
            \/ \E i \in Entries({"status"}) : last.log[i].resp.status # "200")
           => last.ret.kind = "none"

\* the part of C2 the clients do keep: a status request that raised or
\* answered non-200 makes get_status return None
C2_FailedRequestGivesNone ==
    (last.op = "get_status" /\ last.pre.type \in {"NestClient", "PioneerClient"}) =>
        ((\E i \in Entries({"status"}) : last.log[i].resp.status # "200")
            => last.ret.kind = "none")

\* C5: NestClient.authenticate() with a cached access token and now < expiry
\* returns True, sends nothing and leaves the session as it was, whatever
\* auth code or refresh token there is; with now >= expiry, no refresh token
\* and no auth code it returns False.
C5_CachedTokenUntilExpiry ==
    (last.op = "authenticate" /\ last.pre.type = "NestClient") =>
        /\ CachedValid =>
            /\ last.ret.kind = "bool" /\ last.ret.b
            /\ Entries({"token", "status", "command", "schedule"}) = {}
            /\ client = last.pre
        /\ (/\ Truthy(last.pre.access_token)
            /\ last.pre.token_expiry # NoExpiry
            /\ last.t0 >= last.pre.token_expiry
            /\ ~Truthy(last.pre.refresh_token)
            /\ ~Truthy(last.args.auth_code)) =>
            /\ last.ret.kind = "bool" /\ ~last.ret.b
            /\ client = last.pre

C5_Witness ==
    /\ last.op = "authenticate"
    /\ last.pre.type = "NestClient"
    /\ CachedValid
    /\ Truthy(last.pre.refresh_token)
    /\ Truthy(last.args.auth_code)

C5_WitnessExpired ==
    /\ last.op = "authenticate"
    /\ last.pre.type = "NestClient"
    /\ Truthy(last.pre.access_token)
    /\ last.pre.token_expiry # NoExpiry
    /\ last.t0 >= last.pre.token_expiry
    /\ ~Truthy(last.pre.refresh_token)
    /\ ~Truthy(last.args.auth_code)

\* C6: NestClient.authenticate() with a refresh token and no unexpired cached
\* token sends exactly one request, the refresh grant; when it answers 200
\* with an access token (and expires_in is a number or is omitted) the call
\* returns True, stores that token and sets expiry to now + expires_in, with
\* 3600 for an omitted expires_in.
C6_RefreshOnce ==
    (/\ last.op = "authenticate"
     /\ last.pre.type = "NestClient"
     /\ Truthy(last.pre.refresh_token)
     /\ ~CachedValid) =>
        /\ Cardinality(Entries({"token", "status", "command", "schedule"})) = 1
        /\ last.log[1].kind = "token"
        /\ last.log[1].command = "refresh_token"
        /\ last.log[1].url = NestTokenUrl
        /\ LET r == last.log[1].resp
           IN  (/\ r.status = "200" /\ r.json = "object"
                /\ Truthy(r.access_token)
                /\ r.expires_in.kind # "bad") =>
                    /\ last.ret.kind = "bool" /\ last.ret.b
                    /\ client.access_token = r.access_token
                    /\ client.token_expiry =
                        last.t1 + (IF r.expires_in.kind = "absent" THEN 3600
                               ELSE r.expires_in.n)

C6_Witness ==
    /\ last.op = "authenticate"
    /\ last.pre.type = "NestClient"
    /\ Truthy(last.pre.refresh_token)
    /\ ~CachedValid
    /\ last.ret.b
    /\ last.log[1].resp.expires_in.kind = "absent"
    /\ client.token_expiry = last.t1 + 3600

\* the client before the call had nothing to authenticate with
NoAuthMethod ==
    CASE last.pre.type = "NestClient" ->
            /\ ~CachedValid
            /\ ~Truthy(last.pre.refresh_token)
            /\ ~Truthy(last.args.auth_code)
      [] last.pre.type = "PioneerClient" ->
            /\ ~CachedValid
            /\ ~Truthy(last.pre.device_key)
            /\ (~Truthy(last.pre.username) \/ ~Truthy(last.pre.password))
      [] OTHER ->
            /\ ~Truthy(last.pre.token)
            /\ (~Truthy(last.pre.username) \/ ~Truthy(last.pre.password))

FailedAnswer(r) == r.status # "200" \/ r.json = "bad"

\* C7: authenticate() of every client returns a boolean and never raises;
\* it returns False when its token request raised, answered non-200 or
\* answered a body that is not JSON, and when there is nothing to
\* authenticate with (then without sending a request).
C7_AuthenticateNeverRaises ==
    last.op = "authenticate" =>
        /\ last.ret.kind = "bool"
        /\ (\E i \in Entries({"token"}) : FailedAnswer(last.log[i].resp))
            => ~last.ret.b
        /\ NoAuthMethod => (~last.ret.b /\ Entries({"token"}) = {})

C7_Witness ==
    /\ last.op = "authenticate"
    /\ last.pre.type = "NestClient"
    /\ \E i \in Entries({"token"}) :
        /\ last.log[i].command = "authorization_code"
        /\ last.log[i].resp.status = "exc"
    /\ ~last.ret.b

\* C8: PioneerClient.authenticate() prefers an unexpired cached token, then
\* the device key, then username/password: a cached token is kept as it is;
\* otherwise a device key becomes the token, valid for 30 days, without a
\* request even when username and password are set; a request is sent only
\* without a usable cached token and without a device key; and with no
\* device key and a missing username or password it returns False without a
\* request.
C8_PioneerPrecedence ==
    (last.op = "authenticate" /\ last.pre.type = "PioneerClient") =>
        /\ CachedValid =>
            /\ last.ret.b
            /\ client = last.pre
            /\ Entries({"token"}) = {}
        /\ (~CachedValid /\ Truthy(last.pre.device_key)) =>
            /\ last.ret.b
            /\ client.token = last.pre.device_key
            /\ client.token_expiry = last.t0 + 30 * 24 * 3600
            /\ Entries({"token"}) = {}
        /\ Entries({"token"}) # {} =>
            /\ ~CachedValid
            /\ ~Truthy(last.pre.device_key)
            /\ Truthy(last.pre.username) /\ Truthy(last.pre.password)
            /\ Cardinality(Entries({"token"})) = 1
        /\ (/\ ~CachedValid
            /\ ~Truthy(last.pre.device_key)
            /\ (~Truthy(last.pre.username) \/ ~Truthy(last.pre.password))) =>
            /\ ~last.ret.b
            /\ Entries({"token"}) = {}
            /\ client = last.pre

C8_Witness ==
    /\ last.op = "authenticate"
    /\ last.pre.type = "PioneerClient"
    /\ ~CachedValid
    /\ Truthy(last.pre.device_key)
    /\ Truthy(last.pre.username) /\ Truthy(last.pre.password)
    /\ client.token = "dk1"

C8_WitnessLogin ==
    /\ last.op = "authenticate"
    /\ last.pre.type = "PioneerClient"
    /\ Entries({"token"}) # {}
    /\ last.ret.b

C8_WitnessCached ==
    /\ last.op = "authenticate"
    /\ last.pre.type = "PioneerClient"
    /\ CachedValid
    /\ ~Truthy(last.pre.device_key)

\* C9: create_client builds a NestClient for NEST, a CieloClient for CIELO
\* and a PioneerClient for PIONEER, raises the unsupported-type error for
\* every other tag and then builds no client, and sends no request.
C9_FactoryMapping ==
    last.op = "create_client" =>
        /\ last.args.tag = "NEST" =>
            (last.ret.kind # "raise" /\ client.type = "NestClient")
        /\ last.args.tag = "CIELO" =>
            (last.ret.kind # "raise" /\ client.type = "CieloClient")
        /\ last.args.tag = "PIONEER" =>
            (last.ret.kind # "raise" /\ client.type = "PioneerClient")
        /\ last.args.tag \notin {"NEST", "CIELO", "PIONEER"} =>
            (last.ret.kind = "raise" /\ client = NoClient)
        /\ last.log = <<>>
        /\ client # NoClient => client.token_expiry = NoExpiry

C9_Witness ==
    /\ last.op = "create_client"
    /\ last.args.tag = "INVALID"
    /\ last.ret.kind = "raise"

C9_WitnessBuilt ==
    /\ last.op = "create_client"
    /\ last.args.tag = "PIONEER"
    /\ client.type = "PioneerClient"

(***************************************************************************)
(* Properties of the handlers (SpecFacade).                                *)
(***************************************************************************)
DoneCalls == {c \in CallIds : calls[c].pc = "done"}

\* the handlers keep the order build, authenticate, operate
HandlerOrder(call) ==
    /\ call.n_auth <= 1
    /\ call.n_op <= 1
    /\ call.n_auth = 1 => (call.checked /\ call.cl # NoClient)
    /\ call.n_op = 1 => (call.n_auth = 1 /\ call.auth_ret = "true")
    /\ call.auth_ret = "false" => (call.n_op = 0 /\ call.pc = "done")

\* C3 as stated: after authenticate() returned False the handler answers 401
\* and never calls the operation; after it returned True the operation is
\* called exactly once and its result decides between 200 and 400.
C3_AuthenticateThenOperateOnce ==
    \A c \in DoneCalls :
        LET call == calls[c]
        IN  /\ HandlerOrder(call)
            /\ call.auth_ret = "false" =>
                (call.resp.code = 401 /\ call.n_op = 0)
            /\ call.auth_ret = "true" =>
                /\ call.n_op = 1
                /\ call.resp.code = (IF call.op_ret.b THEN 200 ELSE 400)

\* C3 amended: after authenticate() returned True the operation is called
\* at most once, exactly once unless float(temperature) raised; when nothing
\* raised its result decides between 200 and 400, and when the conversion,
\* the operation or the save of the record raised the answer is 500.
C3_AuthenticateThenOperate ==
    \A c \in CallIds :
        LET call == calls[c]
        IN  /\ HandlerOrder(call)
            /\ (call.pc = "done" /\ call.auth_ret = "false") =>
                (call.resp.code = 401 /\ call.n_op = 0)
            /\ (call.pc = "done" /\ call.auth_ret = "true") =>
                /\ call.n_op = 0 <=>
                    (call.op = "set_temperature" /\ Float(call.param).raised)
                /\ call.exc = None =>
                    call.resp.code = (IF call.op_ret.b THEN 200 ELSE 400)
                /\ call.exc # None =>
                    /\ call.resp.code = 500
                    /\ \/ call.n_op = 0
                       \/ call.op_ret.kind = "raise"
                       \/ call.op = "status" /\ call.op_ret.kind = "status"

C3_Witness ==
    \E c \in DoneCalls :
        /\ calls[c].auth_ret = "true"
        /\ calls[c].op = "set_temperature"
        /\ calls[c].n_op = 1
        /\ calls[c].resp.code = 200

C3_WitnessNotInvoked ==
    \E c \in DoneCalls :
        /\ calls[c].auth_ret = "true"
        /\ calls[c].n_op = 0

C3_WitnessAuthFailed ==
    \E c \in DoneCalls :
        /\ calls[c].auth_ret = "false"
        /\ calls[c].resp.code = 401

\* C4: no exception escapes a handler.  Every call ends with an answer; an
\* exception raised while resolving the credential, building the client,
\* authenticating or operating gives the 500 answer carrying its message;
\* and a call that got past its parameter check ends in exactly one of
\* success (200), operation failed (400), authentication failed (401) and
\* integration error (500).
C4_NoExceptionEscapes ==
    \A c \in CallIds :
        LET call == calls[c]
        IN  /\ call.pc \in {"idle", "built", "authenticated", "done"}
            /\ call.pc = "done" =>
                /\ call.resp.code \in {200, 400, 401, 500}
                /\ call.exc # None <=> call.resp.code = 500
                /\ call.exc # None => call.resp.error = call.exc
                /\ call.op_ret.kind = "raise" => call.exc = call.op_ret.msg
                /\ call.checked =>
                    /\ call.resp.code = 401 <=> call.auth_ret = "false"
                    /\ call.resp.code = 200 <=>
                        (call.n_op = 1 /\ call.op_ret.b /\ call.exc = None)
                    /\ call.resp.code = 400 <=>
                        (call.n_op = 1 /\ call.op_ret.kind # "raise" /\ ~call.op_ret.b)
                /\ ~call.checked =>
                    (call.resp.code = 400 /\ call.cl = NoClient)

C4_Witness ==
    \E c \in DoneCalls :
        /\ calls[c].op_ret.kind = "raise"
        /\ calls[c].resp = HttpResponse(500, NotAuthenticated)

C4_WitnessUnsupported ==
    \E c \in DoneCalls :
        /\ thermostat.type = "INVALID"
        /\ calls[c].resp = HttpResponse(500, "Unsupported thermostat type")

\* C10: the resolver never raises; a stored credential that parses as JSON
\* is used as the field map, and one that does not becomes the map with the
\* whole string under "token".
C10_ResolverNeverRaises ==
    \A c \in CallIds :
        calls[c].checked =>
            /\ ~get_client_kwargs(thermostat, settings).raised
            /\ calls[c].exc # AttributeError
            /\ JsonLoads(thermostat.api_key).kind = "error" =>
                Get(Credentials(thermostat).fields, "token") = thermostat.api_key

\* the fields of the stored credential, read from thermostat.api_key
StoredFields ==
    LET k == thermostat.api_key
    IN  IF k = "" THEN <<>>
        ELSE IF JsonLoads(k).kind = "object" THEN JsonLoads(k).fields
        ELSE [token |-> k]

\* the calls whose credential was resolved into keyword arguments
ResolvedCalls ==
    {c \in DOMAIN calls :
        /\ calls[c].checked
        /\ calls[c].exc # AttributeError
        /\ thermostat.type \in {"NEST", "CIELO", "PIONEER"}}

\* C11: for a NEST device client_id, client_secret, redirect_uri and
\* project_id are the configured setting whenever that setting exists, even
\* when the stored credential has the field, and the stored credential's
\* field only when the setting is absent; access_token and refresh_token,
\* and for CIELO and PIONEER username, password, token and device_key, are
\* always the stored credential's fields.
C11_SettingsOverrideStoredAppFields ==
    \A c \in ResolvedCalls :
        LET kw == calls[c].kwargs
            shared(k, name) ==
                kw[k] = (IF name \in DOMAIN settings THEN settings[name]
                         ELSE Get(StoredFields, k))
        IN  /\ thermostat.type = "NEST" =>
                /\ shared("client_id", "NEST_CLIENT_ID")
                /\ shared("client_secret", "NEST_CLIENT_SECRET")
                /\ shared("redirect_uri", "NEST_REDIRECT_URI")
                /\ shared("project_id", "NEST_PROJECT_ID")
                /\ kw.access_token = Get(StoredFields, "access_token")
                /\ kw.refresh_token = Get(StoredFields, "refresh_token")
            /\ thermostat.type = "CIELO" =>
                /\ kw.username = Get(StoredFields, "username")
                /\ kw.password = Get(StoredFields, "password")
                /\ kw.token = Get(StoredFields, "token")
            /\ thermostat.type = "PIONEER" =>
                /\ kw.username = Get(StoredFields, "username")
                /\ kw.password = Get(StoredFields, "password")
                /\ kw.device_key = Get(StoredFields, "device_key")

C11_Witness ==
    \E c \in ResolvedCalls :
        /\ thermostat.type = "NEST"
        /\ "NEST_CLIENT_ID" \in DOMAIN settings
        /\ Get(StoredFields, "client_id") = "devcid"
        /\ calls[c].kwargs.client_id = settings["NEST_CLIENT_ID"]
        /\ calls[c].kwargs.refresh_token = "rt1"

C11_WitnessStored ==
    \E c \in ResolvedCalls :
        /\ thermostat.type = "NEST"
        /\ "NEST_CLIENT_ID" \notin DOMAIN settings
        /\ calls[c].kwargs.client_id = "devcid"

(***************************************************************************)
(* Properties of the status and of the commands (Spec).                    *)
(***************************************************************************)
StatusFields ==
    {"temperature", "target_temperature", "mode", "fan_mode", "is_online", "humidity"}

\* C12: every status returned by get_status, of any client and for any
\* vendor payload, has the six fields of the schema, a mode among heat, cool,
\* auto and off, and a fan_mode among auto and on.
C12_StatusSchema ==
    (last.op = "get_status" /\ last.ret.kind = "status") =>
        /\ StatusFields \subseteq DOMAIN last.ret.st
        /\ last.ret.st.mode \in {"heat", "cool", "auto", "off"}
        /\ last.ret.st.fan_mode \in {"auto", "on"}

\* C12 for the client of the device-management API alone
C12_NestStatusSchema ==
    (last.op = "get_status" /\ last.pre.type = "NestClient") => C12_StatusSchema

\* C12 for the device-key client alone
C12_PioneerStatusSchema ==
    (last.op = "get_status" /\ last.pre.type = "PioneerClient") => C12_StatusSchema

\* a set_temperature call of the NestClient
NestSetTemperature == last.op = "set_temperature" /\ last.pre.type = "NestClient"

\* the status requests of the last call that delivered a device resource
Fetched ==
    {j \in Entries({"status"}) :
        last.log[j].resp.status = "200" /\ last.log[j].resp.json = "object"}

\* the setpoint command for a vendor mode and a Fahrenheit target: the
\* command name with its heatCelsius and coolCelsius, or "" for no command
SetpointFor(vendor_mode, f) ==
    LET celsius == ((f - 32 * Scale) * 5) \div 9
        delta == (11 * Scale) \div 10
    IN  CASE vendor_mode = "COOL" ->
                [command |-> "SetCool", heat |-> NoNum, cool |-> celsius]
          [] vendor_mode = "HEATCOOL" ->
                [command |-> "SetRange", heat |-> celsius - delta,
                 cool |-> celsius + delta]
          [] vendor_mode = "OFF" ->
                [command |-> "", heat |-> NoNum, cool |-> NoNum]
          [] OTHER ->
                [command |-> "SetHeat", heat |-> celsius, cool |-> NoNum]

\* C13: NestClient.set_temperature sends a setpoint command only after a
\* status request of the same call delivered the device resource, and sends
\* at most one; the fetched mode chooses it: heat one SetHeat with
\* heatCelsius = (F-32)*5/9, cool one SetCool with coolCelsius = (F-32)*5/9,
\* auto one SetRange with the converted value minus and plus 1.1; in these
\* three modes the command is always sent; and the call returns True exactly
\* when the command answered 200.
C13_SetpointFollowsFetchedMode ==
    NestSetTemperature =>
        /\ Cardinality(Entries({"command"})) <= 1
        /\ Cardinality(Entries({"status"})) <= 1
        /\ \A i \in Entries({"command"}) :
            \E j \in Fetched :
                LET sp == SetpointFor(last.log[j].resp.data.mode, last.args.n)
                IN  /\ j < i
                    /\ last.log[i].command = sp.command
                    /\ last.log[i].n1 = sp.heat
                    /\ last.log[i].n2 = sp.cool
                    /\ last.log[i].device = last.args.device_id
        /\ \A j \in Fetched :
            last.log[j].resp.data.mode # "OFF" => Entries({"command"}) # {}
        /\ (last.ret.kind = "bool" /\ last.ret.b) <=>
            (\E i \in Entries({"command"}) : last.log[i].resp.status = "200")

C13_Witness ==
    /\ NestSetTemperature
    /\ \E i \in Entries({"command"}) :
        /\ last.log[i].command = "SetRange"
        /\ last.log[i].n1 < last.log[i].n2
        /\ last.log[i].resp.status = "200"
    /\ last.ret.b

C13_WitnessHeat ==
    /\ NestSetTemperature
    /\ \E i \in Entries({"command"}) :
        /\ last.log[i].command = "SetHeat"
        /\ last.log[i].resp.status = "non200"
    /\ ~last.ret.b

\* C14: NestClient.set_temperature returns False and sends no command when
\* the fetched mode is off, and when the status request of the call raised,
\* answered non-200 or answered a body that is not JSON.
C14_NoSetpointWhenOffOrUnfetched ==
    NestSetTemperature =>
        /\ (\E j \in Fetched : last.log[j].resp.data.mode = "OFF") =>
            (last.ret = RetBool(FALSE) /\ Entries({"command"}) = {})
        /\ (\E j \in Entries({"status"}) : j \notin Fetched) =>
            (last.ret = RetBool(FALSE) /\ Entries({"command"}) = {})

C14_Witness ==
    /\ NestSetTemperature
    /\ \E j \in Fetched : last.log[j].resp.data.mode = "OFF"
    /\ last.ret = RetBool(FALSE)

C14_WitnessFetchFailed ==
    /\ NestSetTemperature
    /\ \E j \in Entries({"status"}) : last.log[j].resp.status = "exc"
    /\ last.ret = RetBool(FALSE)

\* C15: NestClient.get_schedule always returns None and
\* NestClient.set_schedule always returns False, whatever the session and
\* the arguments, without any request, without an authenticate() and
\* without changing the session.
C15_NestScheduleUnsupported ==
    (last.pre.type = "NestClient" /\ last.op \in {"get_schedule", "set_schedule"}) =>
        /\ last.op = "get_schedule" => last.ret = RetNone
        /\ last.op = "set_schedule" => last.ret = RetBool(FALSE)
        /\ last.log = <<>>
        /\ client = last.pre

\* get_schedule on a client that could have refreshed its token
C15_Witness ==
    /\ last.pre.type = "NestClient"
    /\ last.op = "get_schedule"
    /\ Truthy(last.pre.refresh_token)
    /\ ~CachedValid
    /\ last.ret = RetNone

C15_WitnessSet ==
    /\ last.pre.type = "NestClient"
    /\ last.op = "set_schedule"
    /\ last.args.mode = "sched1"
    /\ CachedValid
    /\ last.ret = RetBool(FALSE)

\* C16: every client operation eventually returns, even when the vendor
\* never answers one of its requests: a call that waits for an answer does
\* not wait forever.
C16_EveryOperationReturns == (pending # NoPending) ~> (pending = NoPending)

(***************************************************************************)
(* Retries (Spec).                                                         *)
(***************************************************************************)
RequestKinds == {"token", "status", "command", "schedule"}

\* the requests of the last call that raised or answered non-200
FailedRequests == {i \in Entries(RequestKinds) : last.log[i].resp.status # "200"}

C17_WitnessCommand ==
    /\ last.op = "set_mode"
    /\ last.pre.type = "PioneerClient"
    /\ \E i \in FailedRequests : last.log[i].kind = "command"
    /\ last.ret = RetBool(FALSE)

C17_WitnessTokenInOperation ==
    /\ last.op = "set_mode"
    /\ last.pre.type = "PioneerClient"
    /\ \E i \in FailedRequests : last.log[i].kind = "token"
    /\ last.ret.kind = "raise"

(***************************************************************************)
(* The status of the NestClient (Spec).                                    *)
(***************************************************************************)
NestGetStatus == last.op = "get_status" /\ last.pre.type = "NestClient"

\* C19: NestClient.get_status, when its request delivered a device resource,
\* returns a status whose mode is heat, cool, auto, off for the vendor modes
\* HEAT, COOL, HEATCOOL, OFF and heat for any other or missing mode, whose
\* fan_mode is on for timerMode ON and auto otherwise, whose humidity is the
\* ambientHumidityPercent of the resource, and whose is_online is True.
C19_NestStatusMapping ==
    NestGetStatus =>
        \A j \in Fetched :
            LET p == last.log[j].resp.data
            IN  /\ last.ret.kind = "status"
                /\ last.ret.st.mode =
                    (CASE p.mode = "HEAT" -> "heat"
                       [] p.mode = "COOL" -> "cool"
                       [] p.mode = "HEATCOOL" -> "auto"
                       [] p.mode = "OFF" -> "off"
                       [] OTHER -> "heat")
                /\ last.ret.st.fan_mode = (IF p.timerMode = "ON" THEN "on" ELSE "auto")
                /\ last.ret.st.humidity = p.humidity
                /\ last.ret.st.is_online = TRUE

C19_Witness ==
    /\ NestGetStatus
    /\ \E j \in Fetched :
        /\ last.log[j].resp.data.mode = "ECO"
        /\ last.log[j].resp.data.timerMode = "ON"
    /\ last.ret.st.mode = "heat"
    /\ last.ret.st.fan_mode = "on"

C19_WitnessAuto ==
    /\ NestGetStatus
    /\ \E j \in Fetched : last.log[j].resp.data.mode = "HEATCOOL"
    /\ last.ret.st.mode = "auto"
    /\ last.ret.st.humidity = 45

\* c * 9/5 + 32 on a Celsius reading
ToFahrenheit(c) == (c * 9) \div 5 + 32 * Scale

\* the setpoint the vendor mode selects, or NoNum when the resource lacks it
SelectedSetpoint(p) ==
    CASE p.mode = "HEAT" \/ p.mode = None -> p.heat
      [] p.mode = "COOL" -> p.cool
      [] p.mode = "HEATCOOL" /\ p.heat # NoNum /\ p.cool # NoNum ->
            (p.heat + p.cool) \div 2
      [] OTHER -> NoNum

\* C20: NestClient.get_status reports temperature = c*9/5 + 32 for every
\* ambient reading c of the resource, zero and negative readings included,
\* and target_temperature = t*9/5 + 32 for the setpoint t the mode selects:
\* heatCelsius in heat mode, coolCelsius in cool mode, their mean in auto.
C20_NestTemperatureConversion ==
    NestGetStatus =>
        \A j \in Fetched :
            LET p == last.log[j].resp.data
                t == SelectedSetpoint(p)
            IN  /\ p.ambient # NoNum =>
                    last.ret.st.temperature = ToFahrenheit(p.ambient)
                /\ t # NoNum =>
                    last.ret.st.target_temperature = ToFahrenheit(t)

\* the part of C20 the client keeps: readings other than zero
C20_NonZeroReadingsConverted ==
    NestGetStatus =>
        \A j \in Fetched :
            LET p == last.log[j].resp.data
                t == SelectedSetpoint(p)
            IN  /\ (p.ambient # NoNum /\ p.ambient # 0) =>
                    last.ret.st.temperature = ToFahrenheit(p.ambient)
                /\ (t # NoNum /\ t # 0) =>
                    last.ret.st.target_temperature = ToFahrenheit(t)

(***************************************************************************)
(* Concurrent requests (SpecConcurrent).                                   *)
(***************************************************************************)
\* y is what the handler in state x becomes by its next step when it runs
\* alone: from its own request, its own client and the vendor's answers
AloneStep(x, y) ==
    CASE x.pc = "idle" ->
            y = HandlerBegin(thermostat, settings, y.op, y.param)
      [] x.pc = "built" ->
            \E o \in ClientCall(x.cl, now, "authenticate", NoArgs) :
                y = HandlerAuthenticate(x, o)
      [] x.pc = "authenticated" ->
            LET a == HandlerArgs(x, thermostat)
            IN  IF a.raised
                THEN y = Caught(x, ValueError)
                ELSE \E o \in ClientCall(x.cl, now, ClientOp(x.op), a.args) :
                     \E saved \in BOOLEAN :
                        y = HandlerOperate(x, thermostat, now, o, saved).call
      [] OTHER -> FALSE

\* C18: whatever the interleaving of two requests for the same device, a
\* step of one request leaves the other request's client (token, refresh
\* token, expiry) and locals as they were, and takes the request to what
\* the handler would produce alone from its own credential snapshot, its
\* own client and the answers the vendor gave it.
C18_CallsDoNotInterfere ==
    [][\A c \in DOMAIN calls :
        calls[c]' # calls[c] =>
            /\ \A d \in DOMAIN calls \ {c} : calls[d]' = calls[d]
            /\ AloneStep(calls[c], calls[c]')]_vars

\* a poll and a set_temperature, both answered, whose clients ended with
\* different sessions
C18_Witness ==
    /\ DOMAIN calls = ConcurrentCallIds
    /\ calls[1].op = "status" /\ calls[2].op \in {"set_temperature", "set_mode"}
    /\ calls[1].pc = "done" /\ calls[2].pc = "done"
    /\ calls[1].n_op = 1 /\ calls[2].n_op = 1
    /\ calls[1].resp.code = 200 /\ calls[2].resp.code = 200
    /\ calls[1].cl.token_expiry # calls[2].cl.token_expiry

\* the second request authenticated while the first was between its
\* authenticate() and its operation
C18_WitnessInterleaved ==
    /\ DOMAIN calls = ConcurrentCallIds
    /\ calls[1].pc = "authenticated" /\ calls[2].pc = "authenticated"
    /\ calls[1].cl # calls[2].cl

(***************************************************************************)
(* The unit conversions (SpecConvert).                                     *)
(***************************************************************************)
\* C21: the two conversions are mutually inverse within 0.1 degree: a
\* Fahrenheit temperature converted to Celsius and back, and a Celsius
\* temperature converted to Fahrenheit and back, differ from the value they
\* started as by at most a tenth of a degree.
C21_ConversionsRoundTrip ==
    conversion # NoConversion =>
        /\ conversion.back - conversion.input <= Scale \div 10
        /\ conversion.input - conversion.back <= Scale \div 10

\* a negative temperature with a fraction, from Celsius
C21_Witness ==
    /\ conversion.unit = "C"
    /\ conversion.input = Deg(0 - 10) + 1
    /\ conversion.there > 0
    /\ conversion.back # conversion.input

C21_WitnessFahrenheit ==
    /\ conversion.unit = "F"
    /\ conversion.input = Deg(72)
    /\ conversion.there # conversion.input
    /\ conversion.back = Deg(72)

(***************************************************************************)
(* The status of the device-key client (Spec).                             *)
(***************************************************************************)
\* a get_status call of the PioneerClient
PioneerGetStatus == last.op = "get_status" /\ last.pre.type = "PioneerClient"

\* the numeric fields and the online flag of the vendor object d, as the
\* status s carries them: no conversion, None for an absent number, true for
\* an absent flag
NumbersCopied(d, s) ==
    /\ s.temperature = d.current_temperature
    /\ s.target_temperature = d.target_temperature
    /\ s.humidity = d.humidity
    /\ s.is_online = IF d.is_online = "absent" THEN TRUE
                     ELSE d.is_online = "true"

\* C22 as stated: on a 200 answer carrying a JSON object, get_status of the
\* PioneerClient returns a status whose temperature, target_temperature,
\* mode, fan_mode, is_online and humidity are the vendor's
\* current_temperature, target_temperature, mode, fan_mode, is_online and
\* humidity, unchanged, with heat, auto and true for an omitted mode,
\* fan_mode and is_online.
C22_PioneerStatusCopied ==
    PioneerGetStatus =>
        \A j \in Fetched :
            LET d == last.log[j].resp.data
            IN  /\ last.ret.kind = "status"
                /\ NumbersCopied(d, last.ret.st)
                /\ last.ret.st.mode = (IF d.mode = None THEN "heat" ELSE d.mode)
                /\ last.ret.st.fan_mode =
                        (IF d.fan_mode = None THEN "auto" ELSE d.fan_mode)

\* C22, amended: on a 200 answer carrying a JSON object, get_status of the
\* PioneerClient returns a status whose temperature, target_temperature,
\* is_online and humidity are the vendor's values, unchanged and
\* unconverted, and whose mode and fan_mode are the vendor's strings in
\* lower case, with heat, auto and true for an omitted mode, fan_mode and
\* is_online.
C22_PioneerStatusCopiedLowerCased ==
    PioneerGetStatus =>
        \A j \in Fetched :
            LET d == last.log[j].resp.data
            IN  /\ last.ret.kind = "status"
                /\ NumbersCopied(d, last.ret.st)
                /\ last.ret.st.mode =
                        Lower(IF d.mode = None THEN "heat" ELSE d.mode)
                /\ last.ret.st.fan_mode =
                        Lower(IF d.fan_mode = None THEN "auto" ELSE d.fan_mode)

\* a payload with every field, reported as it came
C22_Witness ==
    /\ PioneerGetStatus
    /\ Fetched # {}
    /\ last.ret.kind = "status"
    /\ last.ret.st.temperature = Deg(70)
    /\ last.ret.st.target_temperature = Deg(72)
    /\ last.ret.st.humidity = 35
    /\ last.ret.st.mode = "heat"

\* an upper-case vendor mode, reported in lower case
C22_WitnessLowerCased ==
    /\ PioneerGetStatus
    /\ \E j \in Fetched : last.log[j].resp.data.mode = "COOL"
    /\ last.ret.st.mode = "cool"
    /\ ~last.ret.st.is_online

\* an empty object, reported with the defaults
C22_WitnessDefaults ==
    /\ PioneerGetStatus
    /\ \E j \in Fetched : last.log[j].resp.data = NoPayload
    /\ last.ret.st.mode = "heat"
    /\ last.ret.st.fan_mode = "auto"
    /\ last.ret.st.is_online

(***************************************************************************)
(* The commands and the schedule of the device-key client (Spec).          *)
(***************************************************************************)
PioneerCommands == {"set_temperature", "set_mode", "set_fan_mode", "set_schedule"}

\* a call of the PioneerClient whose authenticate() step returned True
PioneerAuthenticated(ops) ==
    /\ last.op \in ops
    /\ last.pre.type = "PioneerClient"
    /\ AuthReturns(TRUE) # {}

\* the endpoint a command posts to
PioneerUrl(op) ==
    CASE op = "set_temperature" -> "/temperature"
      [] op = "set_mode" -> "/mode"
      [] op = "set_fan_mode" -> "/fan"
      [] op = "set_schedule" -> "/schedule"

\* the string a command carries: the mode or fan mode in lower case, the
\* schedule as given, none for a temperature
PioneerString(op, args) ==
    CASE op = "set_temperature" -> None
      [] op \in {"set_mode", "set_fan_mode"} -> Lower(args.mode)
      [] op = "set_schedule" -> args.mode

\* C23: an authenticated PioneerClient sends, for set_temperature, set_mode,
\* set_fan_mode and set_schedule, exactly one POST and no status or schedule
\* GET; the POST goes to the endpoint of the command for the caller's device
\* and carries the caller's Fahrenheit temperature unchanged, the caller's
\* mode in lower case or the caller's schedule; the call returns True exactly
\* when the POST answers 200.  get_schedule sends one GET and no POST, and
\* returns the vendor's JSON exactly when the GET answers 200 with a JSON
\* body, None otherwise.
C23_PioneerCommands ==
    /\ PioneerAuthenticated(PioneerCommands) =>
            /\ Cardinality(Entries({"command"})) = 1
            /\ Entries({"status", "schedule"}) = {}
            /\ \A j \in Entries({"command"}) :
                    /\ j = Len(last.log)
                    /\ last.log[j].url = PioneerUrl(last.op)
                    /\ last.log[j].device = last.args.device_id
                    /\ last.log[j].n1 = last.args.n
                    /\ last.log[j].mode = PioneerString(last.op, last.args)
                    /\ last.ret = RetBool(last.log[j].resp.status = "200")
    /\ PioneerAuthenticated({"get_schedule"}) =>
            /\ Cardinality(Entries({"schedule"})) = 1
            /\ Entries({"status", "command"}) = {}
            /\ \A j \in Entries({"schedule"}) :
                    /\ j = Len(last.log)
                    /\ last.log[j].device = last.args.device_id
                    /\ last.ret =
                         (IF /\ last.log[j].resp.status = "200"
                             /\ last.log[j].resp.json = "object"
                          THEN RetSchedule(last.log[j].resp.data.schedule)
                          ELSE RetNone)

\* a temperature posted as given and accepted
C23_Witness ==
    /\ PioneerAuthenticated({"set_temperature"})
    /\ last.args.n = Deg(72)
    /\ \E j \in Entries({"command"}) :
            last.log[j].n1 = Deg(72) /\ last.log[j].resp.status = "200"
    /\ last.ret = RetBool(TRUE)

\* a mode posted in lower case and refused
C23_WitnessMode ==
    /\ PioneerAuthenticated({"set_mode"})
    /\ last.args.mode = "Auto"
    /\ \E j \in Entries({"command"}) :
            last.log[j].mode = "auto" /\ last.log[j].resp.status = "non200"
    /\ last.ret = RetBool(FALSE)

\* a schedule stored and a schedule fetched
C23_WitnessSetSchedule ==
    /\ PioneerAuthenticated({"set_schedule"})
    /\ \E j \in Entries({"command"}) :
            last.log[j].mode = "sched1" /\ last.log[j].resp.status = "200"
    /\ last.ret = RetBool(TRUE)

C23_WitnessGetSchedule ==
    /\ PioneerAuthenticated({"get_schedule"})
    /\ last.ret = RetSchedule("sched1")

C23_WitnessNoSchedule ==
    /\ PioneerAuthenticated({"get_schedule"})
    /\ \E j \in Entries({"schedule"}) : last.log[j].resp.status = "non200"
    /\ last.ret = RetNone

(***************************************************************************)
(* The modes of the NestClient (Spec).                                     *)
(***************************************************************************)
VendorModes == {"HEAT", "COOL", "HEATCOOL", "OFF"}

\* the vendor mode of each standard mode
VendorModeOf ==
    [m \in {"heat", "cool", "auto", "off"} |->
        CASE m = "heat" -> "HEAT"
          [] m = "cool" -> "COOL"
          [] m = "auto" -> "HEATCOOL"
          [] m = "off" -> "OFF"]

\* C24: the SetMode command of NestClient.set_mode carries HEAT, COOL,
\* HEATCOOL, OFF for the modes heat, cool, auto, off in any letter case and
\* HEAT for every other string; and each of the four vendor modes, mapped to
\* the standard vocabulary and back, is the same vendor mode again.
C24_NestModeMapping ==
    /\ (last.op = "set_mode" /\ last.pre.type = "NestClient") =>
            \A j \in Entries({"command"}) :
                /\ last.log[j].command = "SetMode"
                /\ last.log[j].mode =
                      (IF Lower(last.args.mode) \in DOMAIN VendorModeOf
                       THEN VendorModeOf[Lower(last.args.mode)]
                       ELSE "HEAT")
    /\ \A v \in VendorModes :
            map_standard_mode_to_nest(map_nest_mode_to_standard(v)) = v

\* a mode outside the vocabulary, sent as HEAT
C24_Witness ==
    /\ last.op = "set_mode" /\ last.pre.type = "NestClient"
    /\ last.args.mode = "dry"
    /\ \E j \in Entries({"command"}) : last.log[j].mode = "HEAT"

\* upper and mixed case
C24_WitnessCool ==
    /\ last.op = "set_mode" /\ last.pre.type = "NestClient"
    /\ last.args.mode = "COOL"
    /\ \E j \in Entries({"command"}) : last.log[j].mode = "COOL"

C24_WitnessAuto ==
    /\ last.op = "set_mode" /\ last.pre.type = "NestClient"
    /\ last.args.mode = "Auto"
    /\ \E j \in Entries({"command"}) : last.log[j].mode = "HEATCOOL"

C24_WitnessOff ==
    /\ last.op = "set_mode" /\ last.pre.type = "NestClient"
    /\ last.args.mode = "off"
    /\ \E j \in Entries({"command"}) : last.log[j].mode = "OFF"

(***************************************************************************)
(* The branches of NestClient.authenticate() (Spec).                       *)
(***************************************************************************)
\* an authenticate() call of the NestClient with no unexpired cached token
NestAuthenticateUncached ==
    /\ last.op = "authenticate"
    /\ last.pre.type = "NestClient"
    /\ ~CachedValid

\* the token request answered 200 with an access token and a usable
\* expires_in
Granted(r) ==
    /\ r.status = "200" /\ r.json = "object"
    /\ Truthy(r.access_token)
    /\ r.expires_in.kind # "bad"

\* C25: NestClient.authenticate() without an unexpired cached token takes
\* exactly one branch.  With a refresh token it sends the refresh grant and
\* nothing else, and returns whether that grant succeeded: the auth code, if
\* one was supplied, is not exchanged, not even when the refresh failed.
\* With no refresh token and an auth code it sends the authorization-code
\* grant and nothing else, and on success the session holds the access token
\* and the refresh token of the answer.  With neither it returns False and
\* has sent nothing.
C25_NestAuthenticateChain ==
    NestAuthenticateUncached =>
        /\ Truthy(last.pre.refresh_token) =>
            /\ Cardinality(Entries(RequestKinds)) = 1
            /\ \A j \in Entries(RequestKinds) :
                    /\ last.log[j].kind = "token"
                    /\ last.log[j].command = "refresh_token"
                    /\ last.log[j].mode = last.pre.refresh_token
                    /\ last.ret = RetBool(Granted(last.log[j].resp))
        /\ (~Truthy(last.pre.refresh_token) /\ Truthy(last.args.auth_code)) =>
            /\ Cardinality(Entries(RequestKinds)) = 1
            /\ \A j \in Entries(RequestKinds) :
                    /\ last.log[j].kind = "token"
                    /\ last.log[j].command = "authorization_code"
                    /\ last.log[j].mode = last.args.auth_code
                    /\ last.ret = RetBool(Granted(last.log[j].resp))
                    /\ last.ret.b =>
                        /\ client.access_token = last.log[j].resp.access_token
                        /\ client.refresh_token = last.log[j].resp.refresh_token
        /\ (~Truthy(last.pre.refresh_token) /\ ~Truthy(last.args.auth_code)) =>
            /\ last.ret = RetBool(FALSE)
            /\ Entries(RequestKinds) = {}

\* a refresh that failed with an auth code at hand: the code is not used
C25_Witness ==
    /\ NestAuthenticateUncached
    /\ Truthy(last.pre.refresh_token)
    /\ Truthy(last.args.auth_code)
    /\ \E j \in Entries({"token"}) : last.log[j].resp.status = "non200"
    /\ last.ret = RetBool(FALSE)

\* an exchange that stored both tokens
C25_WitnessExchange ==
    /\ NestAuthenticateUncached
    /\ ~Truthy(last.pre.refresh_token)
    /\ last.args.auth_code = "code1"
    /\ last.ret = RetBool(TRUE)
    /\ client.access_token = "at2"
    /\ client.refresh_token = "rt2"

\* nothing to authenticate with
C25_WitnessNothing ==
    /\ NestAuthenticateUncached
    /\ ~Truthy(last.pre.refresh_token)
    /\ ~Truthy(last.args.auth_code)
    /\ last.ret = RetBool(FALSE)
    /\ last.log = <<Authenticated(FALSE)>>

(***************************************************************************)
(* A stored access token without a refresh token (SpecFacade).             *)
(***************************************************************************)
\* the device is a NEST thermostat whose stored credential is a JSON object
\* with an access token and no refresh token
StoredAccessTokenOnly ==
    /\ thermostat.type = "NEST"
    /\ Credentials(thermostat).kind = "object"
    /\ Truthy(Get(Credentials(thermostat).fields, "access_token"))
    /\ ~Truthy(Get(Credentials(thermostat).fields, "refresh_token"))

\* C26: for a NEST device whose stored credential has an access token and no
\* refresh token, the client a handler builds holds the token with no
\* expiry; its authenticate() returns False and has sent no request; and the
\* handler, once past its parameter check, answers 401 "Authentication
\* failed" without calling the operation.
C26_AccessTokenAloneNeverAuthenticates ==
    StoredAccessTokenOnly =>
        \A c \in DOMAIN calls :
            /\ calls[c].pc = "built" =>
                /\ calls[c].cl.type = "NestClient"
                /\ Truthy(calls[c].cl.access_token)
                /\ calls[c].cl.token_expiry = NoExpiry
            /\ calls[c].pc # "authenticated"
            /\ calls[c].n_auth > 0 =>
                /\ calls[c].auth_ret = "false"
                /\ calls[c].log = <<Authenticated(FALSE)>>
                /\ calls[c].cl.token_expiry = NoExpiry
            /\ (calls[c].pc = "done" /\ calls[c].checked) =>
                /\ calls[c].n_auth = 1
                /\ calls[c].n_op = 0
                /\ calls[c].resp = HttpResponse(401, "Authentication failed")

\* a status request refused
C26_Witness ==
    /\ StoredAccessTokenOnly
    /\ \E c \in DOMAIN calls :
        /\ calls[c].op = "status"
        /\ calls[c].pc = "done"
        /\ calls[c].cl.access_token = "at1"
        /\ calls[c].resp.code = 401

\* a command refused
C26_WitnessCommand ==
    /\ StoredAccessTokenOnly
    /\ \E c \in DOMAIN calls :
        /\ calls[c].op = "set_temperature"
        /\ calls[c].param = NumParam(72)
        /\ calls[c].pc = "done"
        /\ calls[c].resp.code = 401

(***************************************************************************)
(* The session after a failed authenticate() (Spec).                       *)
(***************************************************************************)
\* the session fields of a client
Session(c) ==
    IF c.type = "NestClient"
    THEN <<c.access_token, c.refresh_token, c.token_expiry>>
    ELSE <<c.token, c.token_expiry>>

\* C27: an authenticate() call of the NestClient or the PioneerClient that
\* returns False leaves the access token (or token), the refresh token and
\* the expiry of the client as they were before the call.
C27_FailedAuthenticateKeepsSession ==
    (/\ last.op = "authenticate"
     /\ last.pre.type \in {"NestClient", "PioneerClient"}
     /\ last.ret = RetBool(FALSE)) =>
        Session(client) = Session(last.pre)

\* what does hold: a failed authenticate() changes the session only when its
\* token request was answered 200 with a JSON object
C27_SessionKeptUnlessAnswered ==
    (/\ last.op = "authenticate"
     /\ last.pre.type \in {"NestClient", "PioneerClient"}
     /\ last.ret = RetBool(FALSE)
     /\ Session(client) # Session(last.pre)) =>
        \E j \in Entries({"token"}) :
            /\ last.log[j].resp.status = "200"
            /\ last.log[j].resp.json = "object"
            /\ \/ ~Truthy(last.log[j].resp.access_token)
               \/ last.log[j].resp.expires_in.kind = "bad"

(***************************************************************************)
(* Token requests within one request to the view set (SpecFacade).         *)
(***************************************************************************)
\* the token requests among the requests of a handler
TokenEntries(log) == {i \in DOMAIN log : log[i].kind = "token"}

\* C28 as stated: within one call of a handler, the authenticate() of the
\* handler and those of the client operation together send at most one
\* request to the token or auth endpoint.
C28_AtMostOneTokenRequest ==
    \A c \in DOMAIN calls : Cardinality(TokenEntries(calls[c].log)) <= 1

\* C28, amended: within one call of a handler each authenticate() sends at
\* most one token request, three at most in all; and a token request is
\* followed by another only when it was granted with an expires_in that has
\* run out since (an expires_in of 0 has run out at once).
C28_TokenRequestAgainOnlyAfterExpiry ==
    \A c \in DOMAIN calls :
        LET log == calls[c].log
        IN  /\ \A j \in TokenEntries(log) :
                    /\ j + 1 \in DOMAIN log
                    /\ log[j + 1].kind = "authenticate"
            /\ Cardinality(TokenEntries(log)) <= 3
            /\ \A i, j \in TokenEntries(log) :
                    i < j =>
                        /\ Granted(log[i].resp)
                        /\ log[i].resp.expires_in.kind = "int"
                        /\ log[i].resp.expires_in.n <= now

\* a token that expires at once: the handler, set_temperature and its
\* get_status each refresh it
C28_Witness ==
    \E c \in DOMAIN calls :
        /\ calls[c].op = "set_temperature"
        /\ calls[c].cl.type = "NestClient"
        /\ Cardinality(TokenEntries(calls[c].log)) = 3
        /\ calls[c].resp.code = 200

\* a token that expired while the call was running
C28_WitnessClock ==
    \E c \in DOMAIN calls :
        /\ calls[c].op = "status"
        /\ Cardinality(TokenEntries(calls[c].log)) = 2
        /\ \A j \in TokenEntries(calls[c].log) :
                calls[c].log[j].resp.expires_in.n = 2

\* the usual call: one token request
C28_WitnessOnce ==
    \E c \in DOMAIN calls :
        /\ calls[c].pc = "done"
        /\ calls[c].n_op = 1
        /\ Cardinality(TokenEntries(calls[c].log)) = 1
        /\ \A j \in TokenEntries(calls[c].log) :
                calls[c].log[j].resp.expires_in.kind = "absent"

(***************************************************************************)
(* The device record after a status request (SpecFacade).                  *)
(***************************************************************************)
\* the record as it was before the request
RecordUnchanged ==
    /\ thermostat.last_temperature = NoNum
    /\ thermostat.last_updated = NoExpiry
    /\ ~thermostat.is_online

\* the status handler wrote the record of call c on the path where
\* authenticate() returned True and get_status returned a status
WrittenOnStatusPath(c) ==
    /\ calls[c].op = "status"
    /\ calls[c].auth_ret = "true"
    /\ calls[c].op_ret.kind = "status"
    /\ thermostat.last_temperature = calls[c].op_ret.st.temperature
    /\ thermostat.last_updated # NoExpiry

\* C29: the record is written only by a status request whose authenticate()
\* returned True and whose get_status returned a status; the record then
\* holds the temperature and the online state that status reports; after
\* any other request the record is as it was.
C29_StatusWritesReportedState ==
    \A c \in DOMAIN calls :
        IF calls[c].wrote
        THEN /\ WrittenOnStatusPath(c)
             /\ thermostat.is_online = calls[c].op_ret.st.is_online
        ELSE RecordUnchanged

\* what does hold: the record is written on that path alone, with the
\* reported temperature, and is marked online whatever the status reports
C29_StatusWritesOnline ==
    \A c \in DOMAIN calls :
        IF calls[c].wrote
        THEN /\ WrittenOnStatusPath(c)
             /\ thermostat.is_online
        ELSE RecordUnchanged

(***************************************************************************)
(* The parameter check of the commands (SpecFacade).                       *)
(***************************************************************************)
FacadeCommands == {"set_temperature", "set_mode", "set_fan_mode", "set_schedule"}

\* the request does not carry the parameter: the key is missing, or, for
\* set_schedule, whose parameter is the body itself, the body is empty
Absent(op, param) ==
    \/ param.kind = "absent"
    \/ op = "set_schedule" /\ param.s = "{}"

\* the handler of call c answered 400 with the 'required' error of its
\* command exactly when miss holds; then it built no client, called no
\* authenticate() and sent nothing; otherwise it went on to the
\* construction of the client
RequiredExactlyWhen(c, miss) ==
    /\ (calls[c].resp = HttpResponse(400, RequiredError(calls[c].op))) <=> miss
    /\ miss =>
        /\ calls[c].pc = "done"
        /\ calls[c].cl = NoClient
        /\ calls[c].n_auth = 0 /\ calls[c].n_op = 0
        /\ calls[c].log = <<>>
    /\ ~miss => calls[c].checked

\* C30: a command answers 400 with its 'required' error exactly when its
\* parameter is absent from the request, and then has built no client,
\* called no authenticate() and sent no request; with the parameter present,
\* whatever its value, the handler goes on to build the client.
C30_RequiredExactlyWhenAbsent ==
    \A c \in DOMAIN calls :
        calls[c].op \in FacadeCommands =>
            RequiredExactlyWhen(c, Absent(calls[c].op, calls[c].param))

\* what does hold: the same with "absent" read as "false in Python", which
\* takes in the number 0 and the empty string
C30_RequiredExactlyWhenFalsy ==
    \A c \in DOMAIN calls :
        calls[c].op \in FacadeCommands =>
            RequiredExactlyWhen(c, Falsy(calls[c].param))

====
